---- MODULE Spec2Model ----
(***************************************************************************)
(* State-machine model of nupic/database/ClientJobsDAO.py: the jobs and    *)
(* models tables of the ClientJobs database and the DAO operations that    *)
(* workers and the ClientJobManager run against them.  Each SQL statement  *)
(* of an operation is one atomic step; a session is one process holding    *)
(* the (single) ClientJobsDAO handle and its memoized connection id.       *)
(* UPDATE row counts are "rows changed", as the source documents for       *)
(* jobSetFields / modelSetFields (ignoreUnchanged) and jobInsertUnique.    *)
(***************************************************************************)
EXTENDS Integers, Sequences, FiniteSets, TLC

\* ---------------------------------------------------------------- bounds
NumSessions == 2
MaxJobs == 2
MaxModels == 2
MaxTime == 3
MaxFaults == 1
MaxCalls == 3

\* ------------------------------------------------------ program constants
HASH_MAX_LEN == 16
CLIENT_MAX_LEN == 8
DEFAULT_JOB_PRIORITY == 0
FIRST_AUTO_ID == 1000

STATUS_NOTSTARTED == "notStarted"
STATUS_STARTING == "starting"
STATUS_RUNNING == "running"
STATUS_TESTMODE == "testMode"
STATUS_COMPLETED == "completed"

CMPL_REASON_SUCCESS == "success"
CMPL_REASON_KILLED == "killed"
CMPL_REASON_ERROR == "error"
CMPL_REASON_EOF == "eof"

CLEAN_NOT_DONE == "notdone"

\* SQL NULL of a text column, SQL NULL of a numeric column, Python None as a
\* returned id, and DATETIME DEFAULT 0.
NULL == "NULL"
NULLINT == -1
None == -1
TIME_DEFAULT == 0

Sessions == 1..NumSessions

VARIABLES
  jobs,        \* jobs table: job_id -> row
  models,      \* models table: model_id -> row
  nextJobId,   \* AUTO_INCREMENT counter of jobs
  nextModelId, \* AUTO_INCREMENT counter of models
  now,         \* UTC_TIMESTAMP() of the server, in seconds
  connOf,      \* session -> self._connectionID
  pc,          \* session -> position inside the operation it runs
  call,        \* session -> the operation and its arguments
  loc,         \* session -> local variables of the running operation
  ret,         \* session -> outcome of the last finished operation
  uuidCount,   \* number of uuid.uuid1() values drawn so far
  faults,      \* transient MySQL faults injected so far
  calls,       \* operations started so far
  instance,    \* ClientJobsDAO._instance of the process the threads run in
  constructed  \* ClientJobsDAO instances constructed in that process

vars == <<jobs, models, nextJobId, nextModelId, now, connOf, pc, call, loc,
          ret, uuidCount, faults, calls, instance, constructed>>

dbVars == <<jobs, models, nextJobId, nextModelId>>
handleVars == <<instance, constructed>>
envVars == <<now, connOf, uuidCount, handleVars>>

\* ------------------------------------------------------------- helpers
NoCall == [op |-> "none"]
NoLoc == [none |-> TRUE]
NoRet == [status |-> "none", value |-> None, exc |-> ""]
Ok(v) == [status |-> "ok", value |-> v, exc |-> ""]
Raise(e) == [status |-> "error", value |-> None, exc |-> e]

RowsAffected_Matched(old, new) == 1

\* Row count reported by cursor.execute for an UPDATE of one matched row:
\* a matched row whose stored values all stay the same is not counted.
RowsAffected(old, new) == IF new # old THEN 1 ELSE 0

NormalizeHash_NoPad(hashValue) == hashValue

\* _normalizeHash: right-pad with NUL to HASH_MAX_LEN.
NormalizeHash(hashValue) ==
  IF Len(hashValue) < HASH_MAX_LEN
  THEN hashValue \o [i \in 1..(HASH_MAX_LEN - Len(hashValue)) |-> 0]
  ELSE hashValue

NormalizeHashOk(hashValue) == Len(hashValue) <= HASH_MAX_LEN

Uuid1Bytes_Fixed(n) == [i \in 1..HASH_MAX_LEN |-> 7]

\* uuid.uuid1().bytes: 16 bytes, distinct on every draw.
Uuid1Bytes(n) == [i \in 1..HASH_MAX_LEN |-> IF i = 1 THEN 100 + n ELSE 7]

\* ------------------------------------------------------- session steps
Step(s, label, l, r) ==
  /\ pc' = [pc EXCEPT ![s] = label]
  /\ loc' = [loc EXCEPT ![s] = l]
  /\ ret' = [ret EXCEPT ![s] = r]
  /\ UNCHANGED <<call, calls>>

Goto(s, label, l) == Step(s, label, l, ret[s])

Return(s, r) == Step(s, "idle", NoLoc, r)

\* An idle session enters a call.
Enter(s, c, label) ==
  /\ pc[s] = "idle"
  /\ calls' = calls + 1
  /\ call' = [call EXCEPT ![s] = c]
  /\ pc' = [pc EXCEPT ![s] = label]
  /\ loc' = [loc EXCEPT ![s] = NoLoc]
  /\ ret' = [ret EXCEPT ![s] = NoRet]

Begin(s, c, label) == calls < MaxCalls /\ Enter(s, c, label)

Faulted(f) == faults' = IF f THEN faults + 1 ELSE faults

\* The session runs (or last ran) operation o.
Running(s, o) == call[s].op = o /\ pc[s] # "idle"
Finished(s, o) == call[s].op = o /\ pc[s] = "idle" /\ ret[s].status # "none"

\* ------------------------------------------------------------ arguments
ClientUI == <<"U", "I">>
ClientTest == <<"t", "e", "s", "t">>
ClientArgs == {ClientUI, ClientTest}

ParamSet1 ==
  [cmdLine |-> "run", params |-> "p1", clientInfo |-> "i1",
   clientKey |-> "k1", minimumWorkers |-> 0, maximumWorkers |-> 0,
   priority |-> DEFAULT_JOB_PRIORITY, jobType |-> "hypersearch"]
ParamSet2 ==
  [cmdLine |-> "run2", params |-> "p2", clientInfo |-> "i2",
   clientKey |-> "k2", minimumWorkers |-> 1, maximumWorkers |-> 2,
   priority |-> 1, jobType |-> "test"]
ParamSets == {ParamSet1, ParamSet2}

HashArgs == {<<1>>, <<2>>}

\* ------------------------------------------------------------ jobs table
\* Row created by the INSERT of _insertOrGetUniqueJobNoRetries; the columns
\* it does not list take the defaults of the CREATE TABLE in _initTables.
NewJobRow(initStatus, client, ps, jobHash, t) ==
  [ client |-> client,
    clientInfo |-> ps.clientInfo,
    clientKey |-> ps.clientKey,
    cmdLine |-> ps.cmdLine,
    params |-> ps.params,
    jobHash |-> jobHash,
    status |-> initStatus,
    completionReason |-> NULL,
    completionMsg |-> NULL,
    workerCompletionReason |-> CMPL_REASON_SUCCESS,
    workerCompletionMsg |-> NULL,
    cancel |-> FALSE,
    startTime |-> TIME_DEFAULT,
    endTime |-> TIME_DEFAULT,
    results |-> NULL,
    engJobType |-> ps.jobType,
    minimumWorkers |-> ps.minimumWorkers,
    maximumWorkers |-> ps.maximumWorkers,
    priority |-> ps.priority,
    engAllocateNewWorkers |-> TRUE,
    engUntendedDeadWorkers |-> FALSE,
    numFailedWorkers |-> 0,
    lastFailedWorkerErrorMsg |-> NULL,
    engCleaningStatus |-> CLEAN_NOT_DONE,
    engLastUpdateTime |-> t,
    engCjmConnId |-> NULLINT,
    engWorkerState |-> NULL,
    engStatus |-> NULL ]

JobRowsMatching_None(client, jobHash) == {}

JobRowsMatching_ByClient(client, jobHash) ==
  {j \in DOMAIN jobs : jobs[j].client = client}

\* UNIQUE INDEX (client, job_hash): the rows an INSERT would collide with.
JobRowsMatching(client, jobHash) ==
  {j \in DOMAIN jobs : jobs[j].client = client /\ jobs[j].jobHash = jobHash}

InsertIgnored_NoUniqueIndex(client, jobHash) == FALSE

\* INSERT IGNORE against UNIQUE INDEX (client, job_hash): nothing is inserted
\* when a row with this client and job_hash exists.
InsertIgnored(client, jobHash) == JobRowsMatching(client, jobHash) # {}

InsertArgsOk_Any(client, cmdLine, jobHash) == TRUE

\* The asserts that open _insertOrGetUniqueJobNoRetries.
InsertArgsOk(client, cmdLine, jobHash) ==
  /\ Len(client) <= CLIENT_MAX_LEN
  /\ cmdLine # ""
  /\ Len(jobHash) = HASH_MAX_LEN

OwnerGate_NoGate(useConnectionID, stored, connectionID) == TRUE

\* WHERE clause of an ownership-gated statement: "AND _eng_cjm_conn_id=%s"
\* (jobs) or "AND _eng_worker_conn_id=%s" (models) is appended only when
\* useConnectionID is set.
OwnerGate(useConnectionID, stored, connectionID) ==
  useConnectionID => stored = connectionID

\* ---------------------------------------------------------- jobInsert
JobInsert_Enter(s, clients, paramSets, flags) ==
  /\ nextJobId - FIRST_AUTO_ID < MaxJobs
  /\ \E client \in clients, ps \in paramSets, ar \in flags :
       Enter(s, [op |-> "jobInsert", client |-> client, ps |-> ps,
                 jobHash |-> NormalizeHash(Uuid1Bytes(uuidCount)),
                 alreadyRunning |-> ar], "ji_insert")
  /\ uuidCount' = uuidCount + 1
  /\ UNCHANGED <<dbVars, now, connOf, handleVars, faults>>

JobInsert_Call(s, clients, paramSets, flags) ==
  calls < MaxCalls /\ JobInsert_Enter(s, clients, paramSets, flags)

\* Where the retry envelope re-enters the closure the session is in.
RestartLabel(s) ==
  CASE call[s].op = "jobInsert" -> "ji_insert"
    [] call[s].op = "jobInsertUnique" -> "ju_lookup"
    [] call[s].op = "jobStartNext" -> "sn_update"
    [] call[s].op = "jobResume" -> "jr_resume"
    [] call[s].op = "modelInsertAndStart" -> "mi_insert"
    [] call[s].op = "modelAdoptNextOrphan" -> "ao_update"
    [] OTHER -> "stmt"

\* Once jobID is known: the alreadyRunning UPDATE, or return.
AfterJobID(s, jobID) ==
  IF call[s].alreadyRunning
  THEN Goto(s, "ji_mark", [jobID |-> jobID])
  ELSE Return(s, Ok(jobID))

\* INSERT IGNORE ... ; SELECT LAST_INSERT_ID()
InsertOrGetUniqueJob_Insert(s) ==
  /\ pc[s] = "ji_insert"
  /\ LET c == call[s]
         initStatus == IF c.alreadyRunning THEN STATUS_TESTMODE
                       ELSE STATUS_NOTSTARTED
     IN
     IF ~InsertArgsOk(c.client, c.ps.cmdLine, c.jobHash)
     THEN /\ Return(s, Raise("AssertionError"))
          /\ UNCHANGED <<dbVars, faults>>
     ELSE IF InsertIgnored(c.client, c.jobHash)
     THEN \* numRowsInserted == 0
          /\ Goto(s, "ji_lookup", NoLoc)
          /\ UNCHANGED <<dbVars, faults>>
     ELSE /\ jobs' = [j \in DOMAIN jobs \cup {nextJobId} |->
                        IF j = nextJobId
                        THEN NewJobRow(initStatus, c.client, c.ps, c.jobHash, now)
                        ELSE jobs[j]]
          /\ nextJobId' = nextJobId + 1
          /\ UNCHANGED <<models, nextModelId>>
          /\ \/ AfterJobID(s, nextJobId) /\ Faulted(FALSE)
             \/ \* LAST_INSERT_ID() returned 0 after a reconnection
                /\ faults < MaxFaults
                /\ Goto(s, "ji_lookup", NoLoc) /\ Faulted(TRUE)
             \/ \* the connection is lost after the INSERT took effect
                /\ faults < MaxFaults
                /\ Goto(s, RestartLabel(s), NoLoc) /\ Faulted(TRUE)
  /\ UNCHANGED envVars

\* jobID == 0: locate the row by (client, job_hash)
InsertOrGetUniqueJob_Lookup(s) ==
  /\ pc[s] = "ji_lookup"
  /\ LET rows == JobRowsMatching(call[s].client, call[s].jobHash) IN
     IF rows = {}
     THEN Return(s, Raise("AssertionError"))
     ELSE \E j \in rows : AfterJobID(s, j)
  /\ UNCHANGED <<dbVars, envVars, faults>>

\* alreadyRunning: UPDATE ... SET _eng_cjm_conn_id, start_time, ... WHERE job_id
InsertOrGetUniqueJob_Mark(s) ==
  /\ pc[s] = "ji_mark"
  /\ LET j == loc[s].jobID IN
     /\ jobs' = [jobs EXCEPT ![j] = [@ EXCEPT !.engCjmConnId = connOf[s],
                                              !.startTime = now,
                                              !.engLastUpdateTime = now]]
     /\ Return(s, Ok(j))
  /\ UNCHANGED <<models, nextJobId, nextModelId, envVars, faults>>

\* -------------------------------------------------------- jobStartNext
JobStartNext_Call(s) ==
  /\ Begin(s, [op |-> "jobStartNext"], "sn_select")
  /\ UNCHANGED <<dbVars, envVars, faults>>

\* _getOneMatchingRowWithRetries(jobs, status=notStarted): any one such row
JobStartNext_Select(s) ==
  /\ pc[s] = "sn_select"
  /\ LET rows == {j \in DOMAIN jobs : jobs[j].status = STATUS_NOTSTARTED} IN
     IF rows = {}
     THEN Return(s, Ok(None))
     ELSE \E j \in rows : Goto(s, "sn_update", [jobID |-> j])
  /\ UNCHANGED <<dbVars, envVars, faults>>

StartJobWhere_AnyStatus(row) == TRUE

\* WHERE (job_id=%s AND status=%s) of _startJobWithRetries
StartJobWhere(row) == row.status = STATUS_NOTSTARTED

StartJobSet_Starting(row, connectionID, t) ==
  [row EXCEPT !.status = STATUS_STARTING,
              !.engCjmConnId = connectionID,
              !.startTime = t,
              !.engLastUpdateTime = t]

\* SET list of _startJobWithRetries
StartJobSet(row, connectionID, t) ==
  [row EXCEPT !.status = STATUS_RUNNING,
              !.engCjmConnId = connectionID,
              !.startTime = t,
              !.engLastUpdateTime = t]

\* What jobStartNext returns after _startJobWithRetries: the selected jobID,
\* whatever numRowsUpdated was.
JobStartNext_Result(s, jobID, numRowsUpdated) == Ok(jobID)

\* _startJobWithRetries, then "return jobID"
StartJobWithRetries(s) ==
  /\ pc[s] = "sn_update"
  /\ LET j == loc[s].jobID
         new == IF StartJobWhere(jobs[j])
                THEN StartJobSet(jobs[j], connOf[s], now)
                ELSE jobs[j]
         numRowsUpdated == RowsAffected(jobs[j], new)
     IN
     /\ jobs' = [jobs EXCEPT ![j] = new]
     /\ \/ Return(s, JobStartNext_Result(s, j, numRowsUpdated)) /\ Faulted(FALSE)
        \/ /\ faults < MaxFaults
           /\ Goto(s, RestartLabel(s), loc[s]) /\ Faulted(TRUE)
  /\ UNCHANGED <<models, nextJobId, nextModelId, envVars>>

\* ---------------------------------------------------- _resumeJobNoRetries
ResumeJobSet_KeepEndTime(row, alreadyRunning, connectionID, t) ==
  [row EXCEPT
     !.status = IF alreadyRunning THEN STATUS_TESTMODE ELSE STATUS_NOTSTARTED,
     !.completionReason = NULL,
     !.completionMsg = NULL,
     !.workerCompletionReason = CMPL_REASON_SUCCESS,
     !.workerCompletionMsg = NULL,
     !.cancel = FALSE,
     !.engLastUpdateTime = t,
     !.engAllocateNewWorkers = TRUE,
     !.engUntendedDeadWorkers = FALSE,
     !.numFailedWorkers = 0,
     !.lastFailedWorkerErrorMsg = NULL,
     !.engCleaningStatus = CLEAN_NOT_DONE,
     !.engCjmConnId = IF alreadyRunning THEN connectionID ELSE NULLINT,
     !.startTime = IF alreadyRunning THEN t ELSE TIME_DEFAULT]

ResumeJobSet_TestMode(row, alreadyRunning, connectionID, t) ==
  [row EXCEPT
     !.status = STATUS_TESTMODE,
     !.completionReason = NULL,
     !.completionMsg = NULL,
     !.workerCompletionReason = CMPL_REASON_SUCCESS,
     !.workerCompletionMsg = NULL,
     !.endTime = TIME_DEFAULT,
     !.cancel = FALSE,
     !.engLastUpdateTime = t,
     !.engAllocateNewWorkers = TRUE,
     !.engUntendedDeadWorkers = FALSE,
     !.numFailedWorkers = 0,
     !.lastFailedWorkerErrorMsg = NULL,
     !.engCleaningStatus = CLEAN_NOT_DONE,
     !.engCjmConnId = IF alreadyRunning THEN connectionID ELSE NULLINT,
     !.startTime = IF alreadyRunning THEN t ELSE TIME_DEFAULT]

\* SET list of _resumeJobNoRetries (DEFAULT = the column default of the schema)
ResumeJobSet(row, alreadyRunning, connectionID, t) ==
  [row EXCEPT
     !.status = IF alreadyRunning THEN STATUS_TESTMODE ELSE STATUS_NOTSTARTED,
     !.completionReason = NULL,
     !.completionMsg = NULL,
     !.workerCompletionReason = CMPL_REASON_SUCCESS,
     !.workerCompletionMsg = NULL,
     !.endTime = TIME_DEFAULT,
     !.cancel = FALSE,
     !.engLastUpdateTime = t,
     !.engAllocateNewWorkers = TRUE,
     !.engUntendedDeadWorkers = FALSE,
     !.numFailedWorkers = 0,
     !.lastFailedWorkerErrorMsg = NULL,
     !.engCleaningStatus = CLEAN_NOT_DONE,
     !.engCjmConnId = IF alreadyRunning THEN connectionID ELSE NULLINT,
     !.startTime = IF alreadyRunning THEN t ELSE TIME_DEFAULT]

\* UPDATE ... WHERE job_id=%s AND status=completed
ResumeJobNoRetries(row, alreadyRunning, connectionID, t) ==
  IF row.status = STATUS_COMPLETED
  THEN ResumeJobSet(row, alreadyRunning, connectionID, t)
  ELSE row

\* ------------------------------------------------------ jobInsertUnique
JobInsertUnique_Enter(s, clients, paramSets, hashes) ==
  /\ \E client \in clients, ps \in paramSets, h \in hashes :
       /\ Enter(s, [op |-> "jobInsertUnique", client |-> client, ps |-> ps,
                    rawHash |-> h, jobHash |-> NormalizeHash(h),
                    alreadyRunning |-> FALSE], "ju_lookup")
  /\ UNCHANGED <<dbVars, envVars, faults>>

JobInsertUnique_Call(s, clients, paramSets, hashes) ==
  calls < MaxCalls /\ JobInsertUnique_Enter(s, clients, paramSets, hashes)

\* assert cmdLine; _normalizeHash; SELECT job_id, status WHERE client, job_hash
JobInsertUnique_Lookup(s) ==
  /\ pc[s] = "ju_lookup"
  /\ LET c == call[s]
         rows == JobRowsMatching(c.client, c.jobHash)
     IN
     IF c.ps.cmdLine = "" \/ ~NormalizeHashOk(c.rawHash)
     THEN Return(s, Raise("AssertionError"))
     ELSE IF rows = {}
     THEN Goto(s, "ji_insert", NoLoc)
     ELSE \E j \in rows :
            IF jobs[j].status = STATUS_COMPLETED
            THEN Goto(s, "ju_update", [jobID |-> j])
            ELSE Return(s, Ok(j))
  /\ UNCHANGED <<dbVars, envVars, faults>>

JobReuseSet_KeepCmdLine(row, ps) ==
  [row EXCEPT !.clientInfo = ps.clientInfo,
              !.clientKey = ps.clientKey,
              !.params = ps.params,
              !.minimumWorkers = ps.minimumWorkers,
              !.maximumWorkers = ps.maximumWorkers,
              !.priority = ps.priority,
              !.engJobType = ps.jobType]

\* SET list of the job-reuse UPDATE of jobInsertUnique
JobReuseSet(row, ps) ==
  [row EXCEPT !.clientInfo = ps.clientInfo,
              !.clientKey = ps.clientKey,
              !.cmdLine = ps.cmdLine,
              !.params = ps.params,
              !.minimumWorkers = ps.minimumWorkers,
              !.maximumWorkers = ps.maximumWorkers,
              !.priority = ps.priority,
              !.engJobType = ps.jobType]

JobReuseWhere_IdOnly(row) == TRUE

\* WHERE (job_id=%s AND status=%s) with STATUS_COMPLETED
JobReuseWhere(row) == row.status = STATUS_COMPLETED

\* the job-reuse UPDATE
JobInsertUnique_Update(s) ==
  /\ pc[s] = "ju_update"
  /\ LET j == loc[s].jobID
         new == IF JobReuseWhere(jobs[j])
                THEN JobReuseSet(jobs[j], call[s].ps)
                ELSE jobs[j]
     IN
     /\ jobs' = [jobs EXCEPT ![j] = new]
     /\ \/ Goto(s, "ju_resume", loc[s]) /\ Faulted(FALSE)
        \/ /\ faults < MaxFaults
           /\ Goto(s, RestartLabel(s), NoLoc) /\ Faulted(TRUE)
  /\ UNCHANGED <<models, nextJobId, nextModelId, envVars>>

\* self._resumeJobNoRetries(conn, jobID, alreadyRunning=False); return jobID
JobInsertUnique_Resume(s) ==
  /\ pc[s] = "ju_resume"
  /\ LET j == loc[s].jobID IN
     /\ jobs' = [jobs EXCEPT
                   ![j] = ResumeJobNoRetries(@, FALSE, connOf[s], now)]
     /\ \/ Return(s, Ok(j)) /\ Faulted(FALSE)
        \/ /\ faults < MaxFaults
           /\ Goto(s, RestartLabel(s), NoLoc) /\ Faulted(TRUE)
  /\ UNCHANGED <<models, nextJobId, nextModelId, envVars>>

\* ------------------------------------------- single-statement job writes
\* A statement wrapped whole in g_retrySQL: it either reports its outcome or
\* is re-executed after a transient fault that followed its effect.
StmtOutcome(s, outcome) ==
  \/ Return(s, outcome) /\ Faulted(FALSE)
  \/ /\ faults < MaxFaults
     /\ Goto(s, RestartLabel(s), NoLoc) /\ Faulted(TRUE)

\* The stored row after "UPDATE jobs SET ... WHERE job_id=%s [AND
\* _eng_cjm_conn_id=%s]", given the row the SET list produces.
GatedJobUpdate(row, new, useConnectionID, connectionID) ==
  IF OwnerGate(useConnectionID, row.engCjmConnId, connectionID)
  THEN new ELSE row

\* ------------------------------------------------------------ jobResume
JobResume_Enter(s, flags) ==
  /\ \E j \in DOMAIN jobs, ar \in flags :
       Enter(s, [op |-> "jobResume", jobID |-> j, alreadyRunning |-> ar],
             "jr_get")
  /\ UNCHANGED <<dbVars, envVars, faults>>

JobResume_Call(s, flags) == calls < MaxCalls /\ JobResume_Enter(s, flags)

ResumeRefused_Never(jobStatus) == FALSE

\* if jobStatus != self.STATUS_COMPLETED
ResumeRefused(jobStatus) == jobStatus # STATUS_COMPLETED

\* row = self.jobGetFields(jobID, ['status']); raise unless completed
JobResume_Get(s) ==
  /\ pc[s] = "jr_get"
  /\ IF ResumeRefused(jobs[call[s].jobID].status)
     THEN Return(s, Raise("RuntimeError"))
     ELSE Goto(s, "jr_resume", NoLoc)
  /\ UNCHANGED <<dbVars, envVars, faults>>

\* resumeWithRetries(): _resumeJobNoRetries(conn, jobID, alreadyRunning)
JobResume_Resume(s) ==
  /\ pc[s] = "jr_resume"
  /\ LET c == call[s]
         j == c.jobID
     IN
     /\ jobs' = [jobs EXCEPT ![j] = ResumeJobNoRetries(jobs[j], c.alreadyRunning,
                                                       connOf[s], now)]
     /\ \/ Return(s, Ok(None)) /\ Faulted(FALSE)
        \/ /\ faults < MaxFaults
           /\ Goto(s, RestartLabel(s), NoLoc) /\ Faulted(TRUE)
  /\ UNCHANGED <<models, nextJobId, nextModelId, envVars>>

\* -------------------------------------------- jobReactivateRunningJobs
JobReactivateRunningJobs_Call(s) ==
  /\ Begin(s, [op |-> "jobReactivateRunningJobs"], "stmt")
  /\ UNCHANGED <<dbVars, envVars, faults>>

ReactivateSet_KeepOwner(row, connectionID) ==
  [row EXCEPT !.engAllocateNewWorkers = TRUE]

\* SET _eng_cjm_conn_id=%s, _eng_allocate_new_workers=TRUE
ReactivateSet(row, connectionID) ==
  [row EXCEPT !.engCjmConnId = connectionID, !.engAllocateNewWorkers = TRUE]

ReactivateWhere_AnyStatus(row) == TRUE

\* WHERE status=%s of jobReactivateRunningJobs
ReactivateWhere(row) == row.status = STATUS_RUNNING

\* UPDATE jobs SET ... WHERE status=running
JobReactivateRunningJobs(s) ==
  /\ pc[s] = "stmt" /\ call[s].op = "jobReactivateRunningJobs"
  /\ jobs' = [j \in DOMAIN jobs |->
               IF ReactivateWhere(jobs[j])
               THEN ReactivateSet(jobs[j], connOf[s])
               ELSE jobs[j]]
  /\ StmtOutcome(s, Ok(None))
  /\ UNCHANGED <<models, nextJobId, nextModelId, envVars>>

JobSetStatus_Call(s, statuses, gates) ==
  /\ \E j \in DOMAIN jobs, st \in statuses, u \in gates :
       Begin(s, [op |-> "jobSetStatus", jobID |-> j, status |-> st,
                 useConnectionID |-> u], "stmt")
  /\ UNCHANGED <<dbVars, envVars, faults>>

JobSetStatusSet(row, status, t) ==
  [row EXCEPT !.status = status, !.engLastUpdateTime = t]

JobSetStatus(s) ==
  /\ pc[s] = "stmt" /\ call[s].op = "jobSetStatus"
  /\ LET c == call[s]
         j == c.jobID
         new == GatedJobUpdate(jobs[j], JobSetStatusSet(jobs[j], c.status, now),
                               c.useConnectionID, connOf[s])
         result == RowsAffected(jobs[j], new)
     IN
     /\ jobs' = [jobs EXCEPT ![j] = new]
     /\ StmtOutcome(s, IF result # 1 THEN Raise("RuntimeError") ELSE Ok(None))
  /\ UNCHANGED <<models, nextJobId, nextModelId, envVars>>

JobSetCompleted_Enter(s, reasons, gates) ==
  /\ \E j \in DOMAIN jobs, r \in reasons, u \in gates :
       Enter(s, [op |-> "jobSetCompleted", jobID |-> j,
                 completionReason |-> r, completionMsg |-> "msg",
                 useConnectionID |-> u], "stmt")
  /\ UNCHANGED <<dbVars, envVars, faults>>

JobSetCompleted_Call(s, reasons, gates) ==
  calls < MaxCalls /\ JobSetCompleted_Enter(s, reasons, gates)

JobSetCompletedSet_NoEndTime(row, completionReason, completionMsg, t) ==
  [row EXCEPT !.status = STATUS_COMPLETED,
              !.completionReason = completionReason,
              !.completionMsg = completionMsg,
              !.engLastUpdateTime = t]

\* SET list of jobSetCompleted
JobSetCompletedSet(row, completionReason, completionMsg, t) ==
  [row EXCEPT !.status = STATUS_COMPLETED,
              !.completionReason = completionReason,
              !.completionMsg = completionMsg,
              !.endTime = t,
              !.engLastUpdateTime = t]

JobSetCompleted(s) ==
  /\ pc[s] = "stmt" /\ call[s].op = "jobSetCompleted"
  /\ LET c == call[s]
         j == c.jobID
         new == GatedJobUpdate(
                  jobs[j],
                  JobSetCompletedSet(jobs[j], c.completionReason,
                                     c.completionMsg, now),
                  c.useConnectionID, connOf[s])
         result == RowsAffected(jobs[j], new)
     IN
     /\ jobs' = [jobs EXCEPT ![j] = new]
     /\ StmtOutcome(s, IF result # 1 THEN Raise("RuntimeError") ELSE Ok(None))
  /\ UNCHANGED <<models, nextJobId, nextModelId, envVars>>

JobSetFields_Call(s, fieldSets, gates) ==
  /\ \E j \in DOMAIN jobs, f \in fieldSets, u \in gates, i \in BOOLEAN :
       Begin(s, [op |-> "jobSetFields", jobID |-> j, fields |-> f,
                 useConnectionID |-> u, ignoreUnchanged |-> i], "stmt")
  /\ UNCHANGED <<dbVars, envVars, faults>>

\* jobCancel(jobID) is jobSetFields(jobID, {"cancel": True},
\* useConnectionID=False)
JobCancel_Call(s) ==
  /\ \E j \in DOMAIN jobs :
       Begin(s, [op |-> "jobSetFields", jobID |-> j,
                 fields |-> [cancel |-> TRUE], useConnectionID |-> FALSE,
                 ignoreUnchanged |-> FALSE], "stmt")
  /\ UNCHANGED <<dbVars, envVars, faults>>

SetFields_Nothing(row, fields) == row

\* SET f=%s for every key f of the fields dict
SetFields(row, fields) ==
  [f \in DOMAIN row |-> IF f \in DOMAIN fields THEN fields[f] ELSE row[f]]

JobSetFields(s) ==
  /\ pc[s] = "stmt" /\ call[s].op = "jobSetFields"
  /\ LET c == call[s]
         j == c.jobID
         new == GatedJobUpdate(jobs[j], SetFields(jobs[j], c.fields),
                               c.useConnectionID, connOf[s])
         result == RowsAffected(jobs[j], new)
     IN
     /\ jobs' = [jobs EXCEPT ![j] = new]
     /\ StmtOutcome(s, IF result # 1 /\ ~c.ignoreUnchanged
                       THEN Raise("RuntimeError") ELSE Ok(None))
  /\ UNCHANGED <<models, nextJobId, nextModelId, envVars>>

\* ------------------------------------------------------ jobUpdateResults
JobUpdateResults_Call(s, jobIDs, resultsArgs) ==
  /\ \E j \in jobIDs, r \in resultsArgs :
       Begin(s, [op |-> "jobUpdateResults", jobID |-> j, results |-> r],
             "stmt")
  /\ UNCHANGED <<dbVars, envVars, faults>>

\* SET _eng_last_update_time=UTC_TIMESTAMP(), results=%s
JobUpdateResultsSet(row, results, t) ==
  [row EXCEPT !.engLastUpdateTime = t, !.results = results]

JobUpdateResults_Raising(result) ==
  IF result # 1 THEN Raise("RuntimeError") ELSE Ok(None)

\* The row count of the UPDATE is not looked at.
JobUpdateResults_Result(result) == Ok(None)

\* UPDATE ... WHERE job_id=%s
JobUpdateResults(s) ==
  /\ pc[s] = "stmt" /\ call[s].op = "jobUpdateResults"
  /\ LET c == call[s]
         j == c.jobID
         new == JobUpdateResultsSet(jobs[j], c.results, now)
         result == IF j \in DOMAIN jobs THEN RowsAffected(jobs[j], new) ELSE 0
     IN
     /\ jobs' = IF j \in DOMAIN jobs THEN [jobs EXCEPT ![j] = new] ELSE jobs
     /\ StmtOutcome(s, JobUpdateResults_Result(result))
  /\ UNCHANGED <<models, nextJobId, nextModelId, envVars>>

\* ---------------------------------------------------------- jobGetFields
\* fields is the list of public field names, in the order requested.
JobGetFields_Call(s, jobIDs, fieldLists) ==
  /\ \E j \in jobIDs, fl \in fieldLists :
       Begin(s, [op |-> "jobGetFields", jobID |-> j, fields |-> fl], "stmt")
  /\ UNCHANGED <<dbVars, envVars, faults>>

\* r[1:] of a row of "SELECT job_id, <fields> FROM jobs WHERE job_id IN ..."
SelectFields(row, fields) == [i \in 1..Len(fields) |-> row[fields[i]]]

\* jobsGetFields([jobID], fields, requireAll=True)[0][1]
JobGetFields(s) ==
  /\ pc[s] = "stmt" /\ call[s].op = "jobGetFields"
  /\ LET c == call[s]
         rows == {j \in DOMAIN jobs : j = c.jobID}
     IN
     StmtOutcome(s, IF Cardinality(rows) < 1
                    THEN Raise("RuntimeError")
                    ELSE Ok(SelectFields(jobs[c.jobID], c.fields)))
  /\ UNCHANGED <<dbVars, envVars>>

JobIncrementIntField_Call(s, fieldNames, increments, gates) ==
  /\ \E j \in DOMAIN jobs, f \in fieldNames, d \in increments, u \in gates :
       Begin(s, [op |-> "jobIncrementIntField", jobID |-> j, fieldName |-> f,
                 increment |-> d, useConnectionID |-> u], "stmt")
  /\ UNCHANGED <<dbVars, envVars, faults>>

IncrementSet_Overwrite(row, fieldName, increment) ==
  [row EXCEPT ![fieldName] = increment]

\* SET f=f+%s
IncrementSet(row, fieldName, increment) ==
  [row EXCEPT ![fieldName] = @ + increment]

JobIncrementIntField(s) ==
  /\ pc[s] = "stmt" /\ call[s].op = "jobIncrementIntField"
  /\ LET c == call[s]
         j == c.jobID
         new == GatedJobUpdate(jobs[j],
                               IncrementSet(jobs[j], c.fieldName, c.increment),
                               c.useConnectionID, connOf[s])
         result == RowsAffected(jobs[j], new)
     IN
     /\ jobs' = [jobs EXCEPT ![j] = new]
     /\ StmtOutcome(s, IF result # 1 THEN Raise("RuntimeError") ELSE Ok(None))
  /\ UNCHANGED <<models, nextJobId, nextModelId, envVars>>

\* ---------------------------------------------------- jobSetFieldIfEqual
\* curValue and newValue are text values or Python None, which is written
\* NULL here as it is in the stored column.
JobSetFieldIfEqual_Call(s, fieldNames, newValues, curValues) ==
  /\ \E j \in DOMAIN jobs, f \in fieldNames, n \in newValues, c \in curValues :
       Begin(s, [op |-> "jobSetFieldIfEqual", jobID |-> j, fieldName |-> f,
                 newValue |-> n, curValue |-> c], "stmt")
  /\ UNCHANGED <<dbVars, envVars, faults>>

ConditionExpression_Always(stored, curValue) == TRUE

\* conditionExpression: "f is NULL" for curValue None, "f=%s" otherwise (a
\* NULL column equals no value)
ConditionExpression(stored, curValue) ==
  IF curValue = NULL
  THEN stored = NULL
  ELSE stored # NULL /\ stored = curValue

\* SET _eng_last_update_time=UTC_TIMESTAMP(), f=%s
SetFieldIfEqualSet(row, fieldName, newValue, t) ==
  [row EXCEPT ![fieldName] = newValue, !.engLastUpdateTime = t]

JobSetFieldIfEqual(s) ==
  /\ pc[s] = "stmt" /\ call[s].op = "jobSetFieldIfEqual"
  /\ LET c == call[s]
         j == c.jobID
         new == IF ConditionExpression(jobs[j][c.fieldName], c.curValue)
                THEN SetFieldIfEqualSet(jobs[j], c.fieldName, c.newValue, now)
                ELSE jobs[j]
         result == RowsAffected(jobs[j], new)
     IN
     /\ jobs' = [jobs EXCEPT ![j] = new]
     /\ StmtOutcome(s, Ok(result = 1))
  /\ UNCHANGED <<models, nextJobId, nextModelId, envVars>>

\* ---------------------------------------------------------- models table
\* particleHash=None of modelInsertAndStart
NoneHash == <<None>>

\* Row created by the INSERT of modelInsertAndStart; the columns it does not
\* list take the defaults of the CREATE TABLE in _initTables.
NewModelRow(jobID, params, paramsHash, particleHash, connectionID, t) ==
  [ jobId |-> jobID,
    params |-> params,
    status |-> STATUS_RUNNING,
    completionReason |-> NULL,
    completionMsg |-> NULL,
    results |-> NULL,
    optimizedMetric |-> NULLINT,
    updateCounter |-> 0,
    numRecords |-> 0,
    startTime |-> t,
    endTime |-> TIME_DEFAULT,
    cpuTime |-> 0,
    engParamsHash |-> paramsHash,
    engParticleHash |-> particleHash,
    engLastUpdateTime |-> t,
    engWorkerConnId |-> connectionID,
    engStop |-> NULL,
    engMatured |-> FALSE ]

DuplicateEntry_ExactOnly(jobID, paramsHash, particleHash) ==
  \E m \in DOMAIN models :
    /\ models[m].jobId = jobID
    /\ models[m].engParamsHash = paramsHash
    /\ models[m].engParticleHash = particleHash

DuplicateEntry_ParamsHashOnly(jobID, paramsHash, particleHash) ==
  \E m \in DOMAIN models :
    models[m].jobId = jobID /\ models[m].engParamsHash = paramsHash

\* UNIQUE INDEX (job_id, _eng_params_hash), UNIQUE INDEX (job_id,
\* _eng_particle_hash): the INSERT fails with "Duplicate entry".
DuplicateEntry(jobID, paramsHash, particleHash) ==
  \E m \in DOMAIN models :
    /\ models[m].jobId = jobID
    /\ \/ models[m].engParamsHash = paramsHash
       \/ models[m].engParticleHash = particleHash

\* findExactMatchNoRetries: rows with job_id, _eng_params_hash and
\* _eng_particle_hash all equal
ExactMatch(jobID, paramsHash, particleHash) ==
  {m \in DOMAIN models :
     /\ models[m].jobId = jobID
     /\ models[m].engParamsHash = paramsHash
     /\ models[m].engParticleHash = particleHash}

\* SELECT model_id WHERE job_id=%s AND (_eng_params_hash=%s OR
\* _eng_particle_hash=%s)
EitherMatch(jobID, paramsHash, particleHash) ==
  {m \in DOMAIN models :
     /\ models[m].jobId = jobID
     /\ \/ models[m].engParamsHash = paramsHash
        \/ models[m].engParticleHash = particleHash}

\* ------------------------------------------------- modelInsertAndStart
ModelInsertAndStart_Call(s, jobIDs, paramsHashes, particleHashes) ==
  /\ nextModelId - FIRST_AUTO_ID < MaxModels
  /\ \E j \in jobIDs, ph \in paramsHashes, qh \in particleHashes :
       LET q == IF qh = NoneHash THEN ph ELSE qh IN
       Begin(s, [op |-> "modelInsertAndStart", jobID |-> j, params |-> "params",
                 rawParamsHash |-> ph, rawParticleHash |-> q,
                 paramsHash |-> NormalizeHash(ph),
                 particleHash |-> NormalizeHash(q)], "mi_precheck")
  /\ UNCHANGED <<dbVars, envVars, faults>>

\* _normalizeHash asserts; row = findExactMatchWithRetries()
ModelInsertAndStart_Precheck(s) ==
  /\ pc[s] = "mi_precheck"
  /\ LET c == call[s]
         rows == ExactMatch(c.jobID, c.paramsHash, c.particleHash)
     IN
     IF ~NormalizeHashOk(c.rawParamsHash) \/ ~NormalizeHashOk(c.rawParticleHash)
     THEN Return(s, Raise("AssertionError"))
     ELSE IF rows # {}
     THEN \E m \in rows : Return(s, Ok(<<m, FALSE>>))
     ELSE Goto(s, "mi_insert", NoLoc)
  /\ UNCHANGED <<dbVars, envVars, faults>>

\* insertModelWithRetries: INSERT INTO models ...; SELECT LAST_INSERT_ID()
ModelInsertAndStart_Insert(s) ==
  /\ pc[s] = "mi_insert"
  /\ LET c == call[s] IN
     IF DuplicateEntry(c.jobID, c.paramsHash, c.particleHash)
     THEN \* "Duplicate entry" is caught and logged
          /\ Goto(s, "mi_exact", NoLoc)
          /\ UNCHANGED <<dbVars, faults>>
     ELSE /\ models' = [m \in DOMAIN models \cup {nextModelId} |->
                          IF m = nextModelId
                          THEN NewModelRow(c.jobID, c.params, c.paramsHash,
                                           c.particleHash, connOf[s], now)
                          ELSE models[m]]
          /\ nextModelId' = nextModelId + 1
          /\ UNCHANGED <<jobs, nextJobId>>
          /\ \/ Return(s, Ok(<<nextModelId, TRUE>>)) /\ Faulted(FALSE)
             \/ \* LAST_INSERT_ID() returned 0 after a reconnection
                /\ faults < MaxFaults
                /\ Goto(s, "mi_exact", NoLoc) /\ Faulted(TRUE)
             \/ \* the connection is lost after the INSERT took effect
                /\ faults < MaxFaults
                /\ Goto(s, RestartLabel(s), NoLoc) /\ Faulted(TRUE)
  /\ UNCHANGED envVars

OursIfAnyOwner(connectionID, selfConnectionID) == TRUE

Ours_Never(connectionID, selfConnectionID) == FALSE

\* connectionID == self._connectionID
Ours(connectionID, selfConnectionID) == connectionID = selfConnectionID

\* row = findExactMatchNoRetries(conn)
ModelInsertAndStart_Exact(s) ==
  /\ pc[s] = "mi_exact"
  /\ LET c == call[s]
         rows == ExactMatch(c.jobID, c.paramsHash, c.particleHash)
     IN
     IF rows # {}
     THEN \E m \in rows :
            Return(s, Ok(<<m, Ours(models[m].engWorkerConnId, connOf[s])>>))
     ELSE Goto(s, "mi_either", NoLoc)
  /\ UNCHANGED <<dbVars, envVars, faults>>

\* SELECT ... WHERE job_id AND (params hash OR particle hash) LIMIT 1
ModelInsertAndStart_Either(s) ==
  /\ pc[s] = "mi_either"
  /\ LET c == call[s]
         rows == EitherMatch(c.jobID, c.paramsHash, c.particleHash)
     IN
     IF rows = {}
     THEN Return(s, Raise("AssertionError"))
     ELSE \E m \in rows : Return(s, Ok(<<m, FALSE>>))
  /\ UNCHANGED <<dbVars, envVars, faults>>

\* ------------------------------------------ single-statement model writes
\* The stored row after "UPDATE models SET ... WHERE model_id=%s [AND
\* _eng_worker_conn_id=%s]", given the row the SET list produces.
GatedModelUpdate_UnlessCompleted(row, new, useConnectionID, connectionID) ==
  IF /\ OwnerGate(useConnectionID, row.engWorkerConnId, connectionID)
     /\ row.status # STATUS_COMPLETED
  THEN new ELSE row

GatedModelUpdate(row, new, useConnectionID, connectionID) ==
  IF OwnerGate(useConnectionID, row.engWorkerConnId, connectionID)
  THEN new ELSE row

ModelUpdateResults_Call(s, resultsArgs, numRecordsArgs) ==
  /\ \E m \in DOMAIN models, r \in resultsArgs, n \in numRecordsArgs :
       Begin(s, [op |-> "modelUpdateResults", modelID |-> m, results |-> r,
                 metricValue |-> NULLINT, numRecords |-> n], "stmt")
  /\ UNCHANGED <<dbVars, envVars, faults>>

\* modelUpdateTimestamp(modelID) is modelUpdateResults(modelID)
ModelUpdateTimestamp_Call(s) == ModelUpdateResults_Call(s, {NULL}, {NULLINT})

\* SET _eng_last_update_time, update_counter+1 and every argument given
ModelUpdateResultsSet(row, results, metricValue, numRecords, t) ==
  [row EXCEPT
     !.engLastUpdateTime = t,
     !.updateCounter = @ + 1,
     !.results = IF results # NULL THEN results ELSE @,
     !.numRecords = IF numRecords # NULLINT THEN numRecords ELSE @,
     !.optimizedMetric = IF metricValue # NULLINT THEN metricValue ELSE @]

ModelUpdateResults(s) ==
  /\ pc[s] = "stmt" /\ call[s].op = "modelUpdateResults"
  /\ LET c == call[s]
         m == c.modelID
         new == GatedModelUpdate(
                  models[m],
                  ModelUpdateResultsSet(models[m], c.results, c.metricValue,
                                        c.numRecords, now),
                  TRUE, connOf[s])
         numRowsAffected == IF m \in DOMAIN models
                            THEN RowsAffected(models[m], new) ELSE 0
     IN
     /\ models' = IF m \in DOMAIN models
                  THEN [models EXCEPT ![m] = new] ELSE models
     /\ StmtOutcome(s, IF numRowsAffected # 1
                       THEN Raise("InvalidConnectionException")
                       ELSE Ok(None))
  /\ UNCHANGED <<jobs, nextJobId, nextModelId, envVars>>

ModelSetCompleted_Call(s, reasons, gates) ==
  /\ \E m \in DOMAIN models, r \in reasons, u \in gates :
       Begin(s, [op |-> "modelSetCompleted", modelID |-> m,
                 completionReason |-> r, completionMsg |-> "",
                 cpuTime |-> 0, useConnectionID |-> u], "stmt")
  /\ UNCHANGED <<dbVars, envVars, faults>>

ModelSetCompletedSet(row, completionReason, completionMsg, cpuTime, t) ==
  [row EXCEPT !.status = STATUS_COMPLETED,
              !.completionReason = completionReason,
              !.completionMsg = completionMsg,
              !.endTime = t,
              !.cpuTime = cpuTime,
              !.engLastUpdateTime = t,
              !.updateCounter = @ + 1]

ModelSetCompleted(s) ==
  /\ pc[s] = "stmt" /\ call[s].op = "modelSetCompleted"
  /\ LET c == call[s]
         m == c.modelID
         new == GatedModelUpdate(
                  models[m],
                  ModelSetCompletedSet(models[m], c.completionReason,
                                       c.completionMsg, c.cpuTime, now),
                  c.useConnectionID, connOf[s])
         numRowsAffected == IF m \in DOMAIN models
                            THEN RowsAffected(models[m], new) ELSE 0
     IN
     /\ models' = IF m \in DOMAIN models
                  THEN [models EXCEPT ![m] = new] ELSE models
     /\ StmtOutcome(s, IF numRowsAffected # 1
                       THEN Raise("InvalidConnectionException")
                       ELSE Ok(None))
  /\ UNCHANGED <<jobs, nextJobId, nextModelId, envVars>>

\* ------------------------------------------------------- modelSetFields
ModelSetFields_Call(s, fieldSets, flags) ==
  /\ \E m \in DOMAIN models, f \in fieldSets, i \in flags :
       Begin(s, [op |-> "modelSetFields", modelID |-> m, fields |-> f,
                 ignoreUnchanged |-> i], "stmt")
  /\ UNCHANGED <<dbVars, envVars, faults>>

ModelSetFieldsSet_NoCounter(row, fields) == SetFields(row, fields)

\* SET f=%s for every key f of fields, update_counter = update_counter+1
ModelSetFieldsSet(row, fields) ==
  [SetFields(row, fields) EXCEPT !.updateCounter = @ + 1]

\* UPDATE models SET ... WHERE model_id=%s
ModelSetFields(s) ==
  /\ pc[s] = "stmt" /\ call[s].op = "modelSetFields"
  /\ LET c == call[s]
         m == c.modelID
         new == ModelSetFieldsSet(models[m], c.fields)
         numAffectedRows == IF m \in DOMAIN models
                            THEN RowsAffected(models[m], new) ELSE 0
     IN
     /\ models' = IF m \in DOMAIN models
                  THEN [models EXCEPT ![m] = new] ELSE models
     /\ StmtOutcome(s, IF numAffectedRows # 1 /\ ~c.ignoreUnchanged
                       THEN Raise("RuntimeError") ELSE Ok(None))
  /\ UNCHANGED <<jobs, nextJobId, nextModelId, envVars>>

\* ------------------------------------------------ modelAdoptNextOrphan
ModelAdoptNextOrphan_Call(s, jobIDs, intervals) ==
  /\ \E j \in jobIDs, i \in intervals :
       Begin(s, [op |-> "modelAdoptNextOrphan", jobId |-> j,
                 maxUpdateInterval |-> i], "ao_find")
  /\ UNCHANGED <<dbVars, envVars, faults>>

\* status=running AND TIMESTAMPDIFF(SECOND, _eng_last_update_time,
\* UTC_TIMESTAMP()) > maxUpdateInterval
OrphanWhere(row, t, maxUpdateInterval) ==
  /\ row.status = STATUS_RUNNING
  /\ t - row.engLastUpdateTime > maxUpdateInterval

\* findCandidateModelWithRetries: SELECT model_id ... LIMIT 1
FindCandidateModel(s) ==
  /\ pc[s] = "ao_find"
  /\ LET c == call[s]
         rows == {m \in DOMAIN models :
                    /\ models[m].jobId = c.jobId
                    /\ OrphanWhere(models[m], now, c.maxUpdateInterval)}
     IN
     IF rows = {}
     THEN Return(s, Ok(None))
     ELSE \E m \in rows : Goto(s, "ao_update", [modelID |-> m])
  /\ UNCHANGED <<dbVars, envVars, faults>>

AdoptWhere_IdOnly(row, t, maxUpdateInterval) == TRUE

AdoptWhere_Never(row, t, maxUpdateInterval) == FALSE

\* WHERE model_id=%s AND status=running AND TIMESTAMPDIFF(SECOND,
\* _eng_last_update_time, UTC_TIMESTAMP()) > maxUpdateInterval
AdoptWhere(row, t, maxUpdateInterval) ==
  /\ row.status = STATUS_RUNNING
  /\ t - row.engLastUpdateTime > maxUpdateInterval

AdoptSet_OwnerOnly(row, connectionID, t) ==
  [row EXCEPT !.engWorkerConnId = connectionID]

AdoptSet_TimeOnly(row, connectionID, t) ==
  [row EXCEPT !.engLastUpdateTime = t]

\* SET _eng_worker_conn_id=%s, _eng_last_update_time=UTC_TIMESTAMP()
AdoptSet(row, connectionID, t) ==
  [row EXCEPT !.engWorkerConnId = connectionID, !.engLastUpdateTime = t]

\* adoptModelWithRetries: the UPDATE
AdoptModel_Update(s) ==
  /\ pc[s] = "ao_update"
  /\ LET c == call[s]
         m == loc[s].modelID
         new == IF AdoptWhere(models[m], now, c.maxUpdateInterval)
                THEN AdoptSet(models[m], connOf[s], now)
                ELSE models[m]
         numRowsAffected == IF m \in DOMAIN models
                            THEN RowsAffected(models[m], new) ELSE 0
     IN
     /\ models' = IF m \in DOMAIN models
                  THEN [models EXCEPT ![m] = new] ELSE models
     /\ \/ /\ IF numRowsAffected = 1
              THEN Return(s, Ok(m))
              ELSE Goto(s, "ao_check", loc[s])
           /\ Faulted(FALSE)
        \/ /\ faults < MaxFaults
           /\ Goto(s, RestartLabel(s), loc[s]) /\ Faulted(TRUE)
  /\ UNCHANGED <<jobs, nextJobId, nextModelId, envVars>>

\* adoptModelWithRetries: numRowsAffected == 0, so re-read (status,
\* _eng_worker_conn_id); not adopted: back to the search loop
AdoptModel_Check(s) ==
  /\ pc[s] = "ao_check"
  /\ LET m == loc[s].modelID IN
     IF m \notin DOMAIN models
     THEN Return(s, Raise("TypeError"))
     ELSE IF models[m].status = STATUS_RUNNING
             /\ models[m].engWorkerConnId = connOf[s]
     THEN Return(s, Ok(m))
     ELSE Goto(s, "ao_find", NoLoc)
  /\ UNCHANGED <<dbVars, envVars, faults>>

\* ------------------------------------------------------------- clock
Tick ==
  /\ now < MaxTime
  /\ now' = now + 1
  /\ UNCHANGED <<dbVars, connOf, uuidCount, handleVars, pc, call, loc, ret, faults,
               calls>>

\* -------------------------------------------------------------- states
EmptyTable == [x \in {} |-> 0]

\* After ClientJobsDAO.connect() in every process, on empty tables: each
\* process has its own MySQL connection id.
Init ==
  /\ jobs = EmptyTable
  /\ models = EmptyTable
  /\ nextJobId = FIRST_AUTO_ID
  /\ nextModelId = FIRST_AUTO_ID
  /\ now = 1
  /\ connOf = [s \in Sessions |-> s]
  /\ pc = [s \in Sessions |-> "idle"]
  /\ call = [s \in Sessions |-> NoCall]
  /\ loc = [s \in Sessions |-> NoLoc]
  /\ ret = [s \in Sessions |-> NoRet]
  /\ uuidCount = 0
  /\ faults = 0
  /\ calls = 0
  /\ instance = 1
  /\ constructed = 1

\* ---------------------------------------------------------------- connect
Connect_Call(s, flags) ==
  /\ \E d \in flags, r \in flags :
       Begin(s, [op |-> "connect", deleteOldVersions |-> d, recreate |-> r],
             "stmt")
  /\ UNCHANGED <<dbVars, envVars, faults>>

DropsCurrent_OldVersions(deleteOldVersions, recreate) ==
  deleteOldVersions \/ recreate

\* _initTables: "DROP DATABASE IF EXISTS <dbName>" is executed with recreate;
\* deleteOldVersions drops the databases of the versions below _DB_VERSION,
\* which are not the one the tables live in.
DropsCurrent(deleteOldVersions, recreate) == recreate

\* _initTables(deleteOldVersions, recreate), then SELECT CONNECTION_ID().
\* The tables are created again with AUTO_INCREMENT=1000; the time during
\* which they do not exist is not represented.  connOf[s] already is the id
\* of the session's connection.
Connect(s) ==
  /\ pc[s] = "stmt" /\ call[s].op = "connect"
  /\ IF DropsCurrent(call[s].deleteOldVersions, call[s].recreate)
     THEN /\ jobs' = EmptyTable
          /\ models' = EmptyTable
          /\ nextJobId' = FIRST_AUTO_ID
          /\ nextModelId' = FIRST_AUTO_ID
     ELSE UNCHANGED dbVars
  /\ StmtOutcome(s, Ok(None))
  /\ UNCHANGED envVars

\* ------------------------------------------------------ ClientJobsDAO.get
Get_Call(s) ==
  /\ Begin(s, [op |-> "get"], "get_check")
  /\ UNCHANGED <<dbVars, envVars, faults>>

\* if ClientJobsDAO._instance is None:
Get_Check(s) ==
  /\ pc[s] = "get_check"
  /\ IF instance = None
     THEN Goto(s, "get_init", NoLoc)
     ELSE Goto(s, "get_return", NoLoc)
  /\ UNCHANGED <<dbVars, envVars, faults>>

\* cjDAO = ClientJobsDAO(): __init__ asserts that _instance is None
Get_Init(s) ==
  /\ pc[s] = "get_init"
  /\ IF instance # None
     THEN /\ Return(s, Raise("AssertionError"))
          /\ UNCHANGED constructed
     ELSE /\ constructed' = constructed + 1
          /\ Goto(s, "get_connect", [cjDAO |-> constructed + 1])
  /\ UNCHANGED <<dbVars, now, connOf, uuidCount, instance, faults>>

\* cjDAO.connect(): the tables exist already; a transient fault makes the
\* retry envelope run connect() again
Get_Connect(s) ==
  /\ pc[s] = "get_connect"
  /\ \/ Goto(s, "get_assign", loc[s]) /\ Faulted(FALSE)
     \/ /\ faults < MaxFaults
        /\ Goto(s, "get_connect", loc[s]) /\ Faulted(TRUE)
  /\ UNCHANGED <<dbVars, envVars>>

\* ClientJobsDAO._instance = cjDAO
Get_Assign(s) ==
  /\ pc[s] = "get_assign"
  /\ instance' = loc[s].cjDAO
  /\ Goto(s, "get_return", NoLoc)
  /\ UNCHANGED <<dbVars, now, connOf, uuidCount, constructed, faults>>

\* return ClientJobsDAO._instance
Get_Return(s) ==
  /\ pc[s] = "get_return"
  /\ Return(s, Ok(instance))
  /\ UNCHANGED <<dbVars, envVars, faults>>

\* ---------------------------------------------------------------- jobInfo
JobInfo_Call(s, jobIDs) ==
  /\ \E j \in jobIDs : Begin(s, [op |-> "jobInfo", jobID |-> j], "stmt")
  /\ UNCHANGED <<dbVars, envVars, faults>>

\* _getOneMatchingRowWithRetries(jobs, job_id=jobID, <public fields>)
JobInfo(s) ==
  /\ pc[s] = "stmt" /\ call[s].op = "jobInfo"
  /\ StmtOutcome(s, IF call[s].jobID \notin DOMAIN jobs
                    THEN Raise("RuntimeError")
                    ELSE Ok(jobs[call[s].jobID]))
  /\ UNCHANGED <<dbVars, envVars>>

\* --------------------------------------------------------- modelsClearAll
ModelsClearAll_Call(s) ==
  /\ Begin(s, [op |-> "modelsClearAll"], "stmt")
  /\ UNCHANGED <<dbVars, envVars, faults>>

\* DELETE FROM models
ModelsClearAll(s) ==
  /\ pc[s] = "stmt" /\ call[s].op = "modelsClearAll"
  /\ models' = EmptyTable
  /\ StmtOutcome(s, Ok(None))
  /\ UNCHANGED <<jobs, nextJobId, nextModelId, envVars>>

\* Job admission and the scheduler's jobStartNext.
NextStart ==
  \/ \E s \in Sessions : JobInsert_Call(s, {ClientTest}, {ParamSet1}, BOOLEAN)
  \/ \E s \in Sessions : InsertOrGetUniqueJob_Insert(s)
  \/ \E s \in Sessions : InsertOrGetUniqueJob_Lookup(s)
  \/ \E s \in Sessions : InsertOrGetUniqueJob_Mark(s)
  \/ \E s \in Sessions : JobStartNext_Call(s)
  \/ \E s \in Sessions : JobStartNext_Select(s)
  \/ \E s \in Sessions : StartJobWithRetries(s)

SpecStart == Init /\ [][NextStart]_vars

\* Job admission: jobInsert, jobInsertUnique (with the resume of a completed
\* job) and jobSetCompleted.
NextAdmit ==
  \/ \E s \in Sessions : JobInsert_Call(s, {ClientUI}, {ParamSet1}, {TRUE})
  \/ \E s \in Sessions : JobInsertUnique_Call(s, {ClientUI}, {ParamSet1}, HashArgs)
  \/ \E s \in Sessions : JobInsertUnique_Lookup(s)
  \/ \E s \in Sessions : JobInsertUnique_Update(s)
  \/ \E s \in Sessions : JobInsertUnique_Resume(s)
  \/ \E s \in Sessions : InsertOrGetUniqueJob_Insert(s)
  \/ \E s \in Sessions : InsertOrGetUniqueJob_Lookup(s)
  \/ \E s \in Sessions : InsertOrGetUniqueJob_Mark(s)
  \/ \E s \in Sessions : JobSetCompleted_Call(s, {CMPL_REASON_SUCCESS}, {FALSE})
  \/ \E s \in Sessions : JobSetCompleted(s)

SpecAdmit == Init /\ [][NextAdmit]_vars

ModelJobArgs == {FIRST_AUTO_ID, FIRST_AUTO_ID + 1}

\* Workers claiming models.
NextClaim ==
  \/ \E s \in Sessions :
       ModelInsertAndStart_Call(s, ModelJobArgs, HashArgs, {NoneHash, <<1>>})
  \/ \E s \in Sessions : ModelInsertAndStart_Precheck(s)
  \/ \E s \in Sessions : ModelInsertAndStart_Insert(s)
  \/ \E s \in Sessions : ModelInsertAndStart_Exact(s)
  \/ \E s \in Sessions : ModelInsertAndStart_Either(s)

SpecClaim == Init /\ [][NextClaim]_vars

\* The claim race on one parameterization: every session calls
\* modelInsertAndStart once.
ModelInsertAndStart_CallOnce(s) ==
  /\ call[s].op = "none"
  /\ ModelInsertAndStart_Call(s, ModelJobArgs, HashArgs, {NoneHash, <<1>>})

NextClaimRace ==
  \/ \E s \in Sessions : ModelInsertAndStart_CallOnce(s)
  \/ \E s \in Sessions : ModelInsertAndStart_Precheck(s)
  \/ \E s \in Sessions : ModelInsertAndStart_Insert(s)
  \/ \E s \in Sessions : ModelInsertAndStart_Exact(s)
  \/ \E s \in Sessions : ModelInsertAndStart_Either(s)

SpecClaimRace == Init /\ [][NextClaimRace]_vars

\* Ownership-gated writes on job and model rows.
FieldSets == {[cancel |-> TRUE]}

NextGate ==
  \/ \E s \in Sessions : JobInsert_Call(s, {ClientTest}, {ParamSet1}, {TRUE})
  \/ \E s \in Sessions : InsertOrGetUniqueJob_Insert(s)
  \/ \E s \in Sessions : InsertOrGetUniqueJob_Lookup(s)
  \/ \E s \in Sessions : InsertOrGetUniqueJob_Mark(s)
  \/ \E s \in Sessions : JobSetStatus_Call(s, {STATUS_RUNNING}, {TRUE})
  \/ \E s \in Sessions : JobSetStatus(s)
  \/ \E s \in Sessions : JobSetCompleted_Call(s, {CMPL_REASON_SUCCESS}, {TRUE})
  \/ \E s \in Sessions : JobSetCompleted(s)
  \/ \E s \in Sessions : JobSetFields_Call(s, FieldSets, {TRUE})
  \/ \E s \in Sessions : JobSetFields(s)
  \/ \E s \in Sessions : JobIncrementIntField_Call(s, {"numFailedWorkers"},
                                                   {0, 1}, {TRUE})
  \/ \E s \in Sessions : JobIncrementIntField(s)
  \/ \E s \in Sessions : ModelInsertAndStart_Call(s, {FIRST_AUTO_ID}, HashArgs,
                                                  {<<1>>})
  \/ \E s \in Sessions : ModelInsertAndStart_Precheck(s)
  \/ \E s \in Sessions : ModelInsertAndStart_Insert(s)
  \/ \E s \in Sessions : ModelInsertAndStart_Exact(s)
  \/ \E s \in Sessions : ModelInsertAndStart_Either(s)
  \/ \E s \in Sessions : ModelUpdateResults_Call(s, {"x"}, {NULLINT})
  \/ \E s \in Sessions : ModelUpdateResults(s)
  \/ \E s \in Sessions : ModelSetCompleted_Call(s, {CMPL_REASON_EOF}, {TRUE})
  \/ \E s \in Sessions : ModelSetCompleted(s)

SpecGate == Init /\ [][NextGate]_vars

\* Workers, heartbeats, the clock and orphan adoption on one job. The
\* interval is long enough that, before the clock reaches MaxTime, a model
\* that was adopted cannot go stale a second time: every adoption race is
\* over one staleness episode.
OrphanIntervals == {MaxTime \div 2}

NextOrphan ==
  \/ \E s \in Sessions : ModelInsertAndStart_Call(s, {FIRST_AUTO_ID}, HashArgs,
                                                  {<<1>>})
  \/ \E s \in Sessions : ModelInsertAndStart_Precheck(s)
  \/ \E s \in Sessions : ModelInsertAndStart_Insert(s)
  \/ \E s \in Sessions : ModelInsertAndStart_Exact(s)
  \/ \E s \in Sessions : ModelInsertAndStart_Either(s)
  \/ \E s \in Sessions : ModelUpdateTimestamp_Call(s)
  \/ \E s \in Sessions : ModelUpdateResults(s)
  \/ \E s \in Sessions : ModelSetCompleted_Call(s, {CMPL_REASON_EOF}, {TRUE})
  \/ \E s \in Sessions : ModelSetCompleted(s)
  \/ \E s \in Sessions : ModelAdoptNextOrphan_Call(s, {FIRST_AUTO_ID},
                                                   OrphanIntervals)
  \/ \E s \in Sessions : FindCandidateModel(s)
  \/ \E s \in Sessions : AdoptModel_Update(s)
  \/ \E s \in Sessions : AdoptModel_Check(s)
  \/ Tick

SpecOrphan == Init /\ [][NextOrphan]_vars

\* The election: every worker calls jobSetFieldIfEqual once, with the same
\* arguments, on a job whose engWorkerState is still NULL.
JobSetFieldIfEqual_CallOnce(s) ==
  /\ call[s].op # "jobSetFieldIfEqual"
  /\ JobSetFieldIfEqual_Call(s, {"engWorkerState"}, {"A"}, {NULL})

\* Jobs are inserted before the first worker votes.
JobInsert_BeforeElection(s) ==
  /\ \A t \in Sessions : call[t].op # "jobSetFieldIfEqual"
  /\ JobInsert_Call(s, {ClientUI}, {ParamSet1}, BOOLEAN)

NextElect ==
  \/ \E s \in Sessions : JobInsert_BeforeElection(s)
  \/ \E s \in Sessions : InsertOrGetUniqueJob_Insert(s)
  \/ \E s \in Sessions : InsertOrGetUniqueJob_Lookup(s)
  \/ \E s \in Sessions : InsertOrGetUniqueJob_Mark(s)
  \/ \E s \in Sessions : JobSetFieldIfEqual_CallOnce(s)
  \/ \E s \in Sessions : JobSetFieldIfEqual(s)

SpecElect == Init /\ [][NextElect]_vars

\* Compare-and-set with matching and non-matching arguments, and the clock.
WorkerStates == {NULL, "A"}

NextCas ==
  \/ \E s \in Sessions : JobInsert_Call(s, {ClientUI}, {ParamSet1}, {FALSE})
  \/ \E s \in Sessions : InsertOrGetUniqueJob_Insert(s)
  \/ \E s \in Sessions : InsertOrGetUniqueJob_Lookup(s)
  \/ \E s \in Sessions : JobSetFieldIfEqual_Call(s, {"engWorkerState"},
                                                 {"A"}, WorkerStates)
  \/ \E s \in Sessions : JobSetFieldIfEqual(s)
  \/ Tick

SpecCas == Init /\ [][NextCas]_vars

\* Admission of one (client, jobHash) with differing parameters, completion
\* and reuse; one call more than elsewhere, for two callers to meet on a job
\* that was inserted and completed.
JobInsertUnique_Reuse(s) ==
  calls <= MaxCalls /\ JobInsertUnique_Enter(s, {ClientUI}, ParamSets, {<<1>>})

JobSetCompleted_ForReuse(s) ==
  calls <= MaxCalls /\ JobSetCompleted_Enter(s, {CMPL_REASON_SUCCESS}, {FALSE})

NextResume ==
  \/ \E s \in Sessions : JobInsertUnique_Reuse(s)
  \/ \E s \in Sessions : JobInsertUnique_Lookup(s)
  \/ \E s \in Sessions : JobInsertUnique_Update(s)
  \/ \E s \in Sessions : JobInsertUnique_Resume(s)
  \/ \E s \in Sessions : InsertOrGetUniqueJob_Insert(s)
  \/ \E s \in Sessions : InsertOrGetUniqueJob_Lookup(s)
  \/ \E s \in Sessions : JobSetCompleted_ForReuse(s)
  \/ \E s \in Sessions : JobSetCompleted(s)

SpecResume == Init /\ [][NextResume]_vars

\* Suspended jobs and their resumption: one more call than MaxCalls, so that
\* an insertion, a completion and two jobResume calls fit.
JobInsert_ForResume(s) ==
  calls <= MaxCalls /\ JobInsert_Enter(s, {ClientUI}, {ParamSet1}, {FALSE})
JobResume_Again(s) == calls <= MaxCalls /\ JobResume_Enter(s, BOOLEAN)

NextResumeTwice ==
  \/ \E s \in Sessions : JobInsert_ForResume(s)
  \/ \E s \in Sessions : InsertOrGetUniqueJob_Insert(s)
  \/ \E s \in Sessions : InsertOrGetUniqueJob_Lookup(s)
  \/ \E s \in Sessions : JobSetCompleted_ForReuse(s)
  \/ \E s \in Sessions : JobSetCompleted(s)
  \/ \E s \in Sessions : JobResume_Again(s)
  \/ \E s \in Sessions : JobResume_Get(s)
  \/ \E s \in Sessions : JobResume_Resume(s)

SpecResumeTwice == Init /\ [][NextResumeTwice]_vars

\* Cancellation of jobs, owned or not.
NextCancel ==
  \/ \E s \in Sessions : JobInsert_Call(s, {ClientUI}, {ParamSet1}, {FALSE})
  \/ \E s \in Sessions : InsertOrGetUniqueJob_Insert(s)
  \/ \E s \in Sessions : InsertOrGetUniqueJob_Lookup(s)
  \/ \E s \in Sessions : JobStartNext_Call(s)
  \/ \E s \in Sessions : JobStartNext_Select(s)
  \/ \E s \in Sessions : StartJobWithRetries(s)
  \/ \E s \in Sessions : JobCancel_Call(s)
  \/ \E s \in Sessions : JobSetFields(s)

SpecCancel == Init /\ [][NextCancel]_vars

\* The life cycle of a job's status: admission, the scheduler's start, the
\* status writers, completion and resume.
StatusArgs == {STATUS_NOTSTARTED, STATUS_STARTING, STATUS_RUNNING,
               STATUS_COMPLETED}
StatusFieldSets == {[status |-> STATUS_RUNNING]}

NextStatus ==
  \/ \E s \in Sessions : JobInsert_Call(s, {ClientUI}, {ParamSet1}, {FALSE})
  \/ \E s \in Sessions : InsertOrGetUniqueJob_Insert(s)
  \/ \E s \in Sessions : InsertOrGetUniqueJob_Lookup(s)
  \/ \E s \in Sessions : JobStartNext_Call(s)
  \/ \E s \in Sessions : JobStartNext_Select(s)
  \/ \E s \in Sessions : StartJobWithRetries(s)
  \/ \E s \in Sessions : JobSetStatus_Call(s, StatusArgs, {FALSE})
  \/ \E s \in Sessions : JobSetStatus(s)
  \/ \E s \in Sessions : JobSetFields_Call(s, StatusFieldSets, {FALSE})
  \/ \E s \in Sessions : JobSetFields(s)
  \/ \E s \in Sessions : JobSetCompleted_Call(s, {CMPL_REASON_SUCCESS}, {FALSE})
  \/ \E s \in Sessions : JobSetCompleted(s)
  \/ \E s \in Sessions : JobResume_Call(s, BOOLEAN)
  \/ \E s \in Sessions : JobResume_Get(s)
  \/ \E s \in Sessions : JobResume_Resume(s)

SpecStatus == Init /\ [][NextStatus]_vars

\* Ownership of a job: admission, the scheduler's start, the scheduler's
\* failure recovery, and the owner-gated status writers.
NextOwner ==
  \/ \E s \in Sessions : JobInsert_Call(s, {ClientUI}, {ParamSet1}, {FALSE})
  \/ \E s \in Sessions : InsertOrGetUniqueJob_Insert(s)
  \/ \E s \in Sessions : InsertOrGetUniqueJob_Lookup(s)
  \/ \E s \in Sessions : JobStartNext_Call(s)
  \/ \E s \in Sessions : JobStartNext_Select(s)
  \/ \E s \in Sessions : StartJobWithRetries(s)
  \/ \E s \in Sessions : JobReactivateRunningJobs_Call(s)
  \/ \E s \in Sessions : JobReactivateRunningJobs(s)
  \/ \E s \in Sessions : JobSetStatus_Call(s, {STATUS_STARTING}, {TRUE})
  \/ \E s \in Sessions : JobSetStatus(s)
  \/ \E s \in Sessions : JobSetCompleted_Call(s, {CMPL_REASON_SUCCESS}, {TRUE})
  \/ \E s \in Sessions : JobSetCompleted(s)

SpecOwner == Init /\ [][NextOwner]_vars

\* Writes to one model through and after its completion: the worker's
\* heartbeat, modelSetFields, completion, the clock and orphan adoption.  Every
\* modelInsertAndStart passes the same two hashes, so a duplicate entry always
\* has an exact match and the either-hash lookup is never reached.
ModelFieldSets == {[engMatured |-> TRUE]}

NextModelWrites ==
  \/ \E s \in Sessions : ModelInsertAndStart_Call(s, {FIRST_AUTO_ID}, {<<1>>},
                                                  {<<1>>})
  \/ \E s \in Sessions : ModelInsertAndStart_Precheck(s)
  \/ \E s \in Sessions : ModelInsertAndStart_Insert(s)
  \/ \E s \in Sessions : ModelInsertAndStart_Exact(s)
  \/ \E s \in Sessions : ModelUpdateTimestamp_Call(s)
  \/ \E s \in Sessions : ModelUpdateResults(s)
  \/ \E s \in Sessions : ModelSetFields_Call(s, ModelFieldSets, {FALSE})
  \/ \E s \in Sessions : ModelSetFields(s)
  \/ \E s \in Sessions : ModelSetCompleted_Call(s, {CMPL_REASON_EOF}, BOOLEAN)
  \/ \E s \in Sessions : ModelSetCompleted(s)
  \/ \E s \in Sessions : ModelAdoptNextOrphan_Call(s, {FIRST_AUTO_ID},
                                                   OrphanIntervals)
  \/ \E s \in Sessions : FindCandidateModel(s)
  \/ \E s \in Sessions : AdoptModel_Update(s)
  \/ \E s \in Sessions : AdoptModel_Check(s)
  \/ Tick

SpecModelWrites == Init /\ [][NextModelWrites]_vars

\* jobSetFields and jobGetFields on jobs inserted plainly (no owner) or
\* pre-started (owned by the inserting connection), with and without the
\* ownership gate and ignoreUnchanged.
RoundTripFieldSets == {[cancel |-> TRUE, status |-> STATUS_RUNNING]}
RoundTripFieldLists == {<<"status", "cancel">>}
\* The first jobID and one the table never holds.
RoundTripJobIds == {FIRST_AUTO_ID, FIRST_AUTO_ID + MaxJobs}

NextFields ==
  \/ \E s \in Sessions : JobInsert_Call(s, {ClientUI}, {ParamSet1}, BOOLEAN)
  \/ \E s \in Sessions : InsertOrGetUniqueJob_Insert(s)
  \/ \E s \in Sessions : InsertOrGetUniqueJob_Lookup(s)
  \/ \E s \in Sessions : InsertOrGetUniqueJob_Mark(s)
  \/ \E s \in Sessions : JobSetFields_Call(s, RoundTripFieldSets, BOOLEAN)
  \/ \E s \in Sessions : JobSetFields(s)
  \/ \E s \in Sessions :
       JobGetFields_Call(s, RoundTripJobIds, RoundTripFieldLists)
  \/ \E s \in Sessions : JobGetFields(s)

SpecFields == Init /\ [][NextFields]_vars

\* Hashes as callers pass them: a short hash, the same hash already padded
\* with NUL to HASH_MAX_LEN, and a hash one byte too long.
ShortHash == <<1>>
PaddedHash == [i \in 1..HASH_MAX_LEN |-> IF i = 1 THEN 1 ELSE 0]
LongHash == [i \in 1..(HASH_MAX_LEN + 1) |-> 1]
HashForms == {ShortHash, PaddedHash, LongHash}

NextHash ==
  \/ \E s \in Sessions :
       JobInsertUnique_Call(s, {ClientUI}, {ParamSet1}, HashForms)
  \/ \E s \in Sessions : JobInsertUnique_Lookup(s)
  \/ \E s \in Sessions : JobInsertUnique_Update(s)
  \/ \E s \in Sessions : JobInsertUnique_Resume(s)
  \/ \E s \in Sessions : InsertOrGetUniqueJob_Insert(s)
  \/ \E s \in Sessions : InsertOrGetUniqueJob_Lookup(s)
  \/ \E s \in Sessions : JobSetCompleted_Call(s, {CMPL_REASON_SUCCESS}, {FALSE})
  \/ \E s \in Sessions : JobSetCompleted(s)
  \/ \E s \in Sessions :
       ModelInsertAndStart_Call(s, {FIRST_AUTO_ID}, HashForms, {NoneHash, <<2>>})
  \/ \E s \in Sessions : ModelInsertAndStart_Precheck(s)
  \/ \E s \in Sessions : ModelInsertAndStart_Insert(s)
  \/ \E s \in Sessions : ModelInsertAndStart_Exact(s)
  \/ \E s \in Sessions : ModelInsertAndStart_Either(s)

SpecHash == Init /\ [][NextHash]_vars

\* Arguments the insertions refuse: a client of CLIENT_MAX_LEN + 1
\* characters, and an empty cmdLine ("assert cmdLine" refuses None alike).
ClientTooLong == [i \in 1..(CLIENT_MAX_LEN + 1) |-> "c"]
ParamSetNoCmdLine == [ParamSet2 EXCEPT !.cmdLine = ""]

\* Insertions with valid and refused arguments, around a job that completes
\* and is named again by jobInsertUnique.
NextReject ==
  \/ \E s \in Sessions :
       JobInsert_Call(s, {ClientTooLong}, {ParamSet1, ParamSetNoCmdLine},
                      {FALSE})
  \/ \E s \in Sessions :
       JobInsertUnique_Call(s, {ClientUI, ClientTooLong},
                            {ParamSet1, ParamSetNoCmdLine}, {ShortHash})
  \/ \E s \in Sessions : JobInsertUnique_Lookup(s)
  \/ \E s \in Sessions : JobInsertUnique_Update(s)
  \/ \E s \in Sessions : JobInsertUnique_Resume(s)
  \/ \E s \in Sessions : InsertOrGetUniqueJob_Insert(s)
  \/ \E s \in Sessions : InsertOrGetUniqueJob_Lookup(s)
  \/ \E s \in Sessions : JobSetCompleted_Call(s, {CMPL_REASON_SUCCESS}, {FALSE})
  \/ \E s \in Sessions : JobSetCompleted(s)

SpecReject == Init /\ [][NextReject]_vars

\* Every way into testMode next to the scheduler: plain and pre-started
\* insertions, completion, resumption with and without alreadyRunning, and
\* jobSetStatus given testMode.
NextTestMode ==
  \/ \E s \in Sessions : JobInsert_Call(s, {ClientUI}, {ParamSet1}, BOOLEAN)
  \/ \E s \in Sessions : InsertOrGetUniqueJob_Insert(s)
  \/ \E s \in Sessions : InsertOrGetUniqueJob_Lookup(s)
  \/ \E s \in Sessions : InsertOrGetUniqueJob_Mark(s)
  \/ \E s \in Sessions : JobStartNext_Call(s)
  \/ \E s \in Sessions : JobStartNext_Select(s)
  \/ \E s \in Sessions : StartJobWithRetries(s)
  \/ \E s \in Sessions : JobSetCompleted_Call(s, {CMPL_REASON_SUCCESS}, {FALSE})
  \/ \E s \in Sessions : JobSetCompleted(s)
  \/ \E s \in Sessions : JobResume_Call(s, BOOLEAN)
  \/ \E s \in Sessions : JobResume_Get(s)
  \/ \E s \in Sessions : JobResume_Resume(s)
  \/ \E s \in Sessions : JobSetStatus_Call(s, {STATUS_TESTMODE}, {FALSE})
  \/ \E s \in Sessions : JobSetStatus(s)

SpecTestMode == Init /\ [][NextTestMode]_vars

\* Insertions of jobs and models next to the operations that delete rows:
\* connect with its two flags and modelsClearAll; jobInfo reads a job.
NextRecreate ==
  \/ \E s \in Sessions : JobInsert_Call(s, {ClientUI}, {ParamSet1}, {FALSE})
  \/ \E s \in Sessions : InsertOrGetUniqueJob_Insert(s)
  \/ \E s \in Sessions : InsertOrGetUniqueJob_Lookup(s)
  \/ \E s \in Sessions : Connect_Call(s, BOOLEAN)
  \/ \E s \in Sessions : Connect(s)
  \/ \E s \in Sessions : JobInfo_Call(s, {FIRST_AUTO_ID})
  \/ \E s \in Sessions : JobInfo(s)
  \/ \E s \in Sessions :
       ModelInsertAndStart_Call(s, {FIRST_AUTO_ID}, {ShortHash}, {NoneHash})
  \/ \E s \in Sessions : ModelInsertAndStart_Precheck(s)
  \/ \E s \in Sessions : ModelInsertAndStart_Insert(s)
  \/ \E s \in Sessions : ModelInsertAndStart_Exact(s)
  \/ \E s \in Sessions : ModelInsertAndStart_Either(s)
  \/ \E s \in Sessions : ModelsClearAll_Call(s)
  \/ \E s \in Sessions : ModelsClearAll(s)

SpecRecreate == Init /\ [][NextRecreate]_vars

\* Counting with jobIncrementIntField, ungated, by one, under transient
\* faults.
NextRetry ==
  \/ \E s \in Sessions : JobInsert_Call(s, {ClientUI}, {ParamSet1}, {FALSE})
  \/ \E s \in Sessions : InsertOrGetUniqueJob_Insert(s)
  \/ \E s \in Sessions : InsertOrGetUniqueJob_Lookup(s)
  \/ \E s \in Sessions :
       JobIncrementIntField_Call(s, {"numFailedWorkers"}, {1}, {FALSE})
  \/ \E s \in Sessions : JobIncrementIntField(s)

SpecRetry == Init /\ [][NextRetry]_vars

\* Statements that can affect no row: a missing jobID, a job or model owned
\* by another connection, a job that is no longer notStarted.
NextZeroRows ==
  \/ \E s \in Sessions : JobInsert_Call(s, {ClientUI}, {ParamSet1}, {FALSE})
  \/ \E s \in Sessions : InsertOrGetUniqueJob_Insert(s)
  \/ \E s \in Sessions : InsertOrGetUniqueJob_Lookup(s)
  \/ \E s \in Sessions : JobStartNext_Call(s)
  \/ \E s \in Sessions : JobStartNext_Select(s)
  \/ \E s \in Sessions : StartJobWithRetries(s)
  \/ \E s \in Sessions :
       JobUpdateResults_Call(s, {FIRST_AUTO_ID, FIRST_AUTO_ID + MaxJobs}, {"r"})
  \/ \E s \in Sessions : JobUpdateResults(s)
  \/ \E s \in Sessions : JobSetStatus_Call(s, {STATUS_RUNNING}, {TRUE})
  \/ \E s \in Sessions : JobSetStatus(s)
  \/ \E s \in Sessions :
       JobIncrementIntField_Call(s, {"numFailedWorkers"}, {1}, {TRUE})
  \/ \E s \in Sessions : JobIncrementIntField(s)
  \/ \E s \in Sessions :
       ModelInsertAndStart_Call(s, {FIRST_AUTO_ID}, {ShortHash}, {NoneHash})
  \/ \E s \in Sessions : ModelInsertAndStart_Precheck(s)
  \/ \E s \in Sessions : ModelInsertAndStart_Insert(s)
  \/ \E s \in Sessions : ModelInsertAndStart_Exact(s)
  \/ \E s \in Sessions : ModelUpdateTimestamp_Call(s)
  \/ \E s \in Sessions : ModelUpdateResults(s)

SpecZeroRows == Init /\ [][NextZeroRows]_vars

\* The scheduler's failure recovery: a job is started by one scheduler and
\* taken over by jobReactivateRunningJobs; schedulers switch worker
\* allocation off through the ownership gate.  The gated write may be the
\* call after the last, so that it can follow insertion, start and
\* reactivation.
JobSetFields_Gated(s) ==
  /\ calls <= MaxCalls
  /\ \E j \in DOMAIN jobs, i \in BOOLEAN :
       Enter(s, [op |-> "jobSetFields", jobID |-> j,
                 fields |-> [engAllocateNewWorkers |-> FALSE],
                 useConnectionID |-> TRUE, ignoreUnchanged |-> i], "stmt")
  /\ UNCHANGED <<dbVars, envVars, faults>>

NextReactivate ==
  \/ \E s \in Sessions : JobInsert_Call(s, {ClientUI}, {ParamSet1}, {FALSE})
  \/ \E s \in Sessions : InsertOrGetUniqueJob_Insert(s)
  \/ \E s \in Sessions : InsertOrGetUniqueJob_Lookup(s)
  \/ \E s \in Sessions : JobStartNext_Call(s)
  \/ \E s \in Sessions : JobStartNext_Select(s)
  \/ \E s \in Sessions : StartJobWithRetries(s)
  \/ \E s \in Sessions : JobReactivateRunningJobs_Call(s)
  \/ \E s \in Sessions : JobReactivateRunningJobs(s)
  \/ \E s \in Sessions : JobSetFields_Gated(s)
  \/ \E s \in Sessions : JobSetFields(s)

SpecReactivate == Init /\ [][NextReactivate]_vars

\* Concurrent counting without storage faults: every session inserts jobs,
\* plain or pre-started, and then increments numFailedWorkers of some job
\* once, with or without the ownership gate.  The behaviour starts with the
\* transient faults spent, so the lookup that follows an ignored INSERT is
\* never reached.
IncrementArgs == {0, 1, 2}

JobInsert_BeforeIncrement(s) ==
  /\ call[s].op # "jobIncrementIntField"
  /\ JobInsert_Call(s, {ClientUI}, {ParamSet1}, BOOLEAN)

JobIncrementIntField_CallOnce(s) ==
  /\ call[s].op # "jobIncrementIntField"
  /\ JobIncrementIntField_Call(s, {"numFailedWorkers"}, IncrementArgs, BOOLEAN)

NextIncrement ==
  \/ \E s \in Sessions : JobInsert_BeforeIncrement(s)
  \/ \E s \in Sessions : InsertOrGetUniqueJob_Insert(s)
  \/ \E s \in Sessions : InsertOrGetUniqueJob_Mark(s)
  \/ \E s \in Sessions : JobIncrementIntField_CallOnce(s)
  \/ \E s \in Sessions : JobIncrementIntField(s)

\* The state after construction with the storage already past its transient
\* faults: no statement of the behaviour is interrupted.
InitNoFaults ==
  /\ jobs = EmptyTable
  /\ models = EmptyTable
  /\ nextJobId = FIRST_AUTO_ID
  /\ nextModelId = FIRST_AUTO_ID
  /\ now = 1
  /\ connOf = [s \in Sessions |-> s]
  /\ pc = [s \in Sessions |-> "idle"]
  /\ call = [s \in Sessions |-> NoCall]
  /\ loc = [s \in Sessions |-> NoLoc]
  /\ ret = [s \in Sessions |-> NoRet]
  /\ uuidCount = 0
  /\ faults = MaxFaults
  /\ calls = 0
  /\ instance = 1
  /\ constructed = 1

SpecIncrement == InitNoFaults /\ [][NextIncrement]_vars

\* The statements of one modelAdoptNextOrphan call: the calling thread runs
\* them one after the other, so a call that has a statement to execute is
\* not held up forever.
AdoptStep(s) ==
  \/ FindCandidateModel(s)
  \/ AdoptModel_Update(s)
  \/ AdoptModel_Check(s)

\* Adoption under fair scheduling: workers claim one model of the job, send
\* heartbeats and adopt orphans while the clock advances.
NextAdopt ==
  \/ \E s \in Sessions : ModelInsertAndStart_Call(s, {FIRST_AUTO_ID},
                                                  {ShortHash}, {NoneHash})
  \/ \E s \in Sessions : ModelInsertAndStart_Precheck(s)
  \/ \E s \in Sessions : ModelInsertAndStart_Insert(s)
  \/ \E s \in Sessions : ModelInsertAndStart_Exact(s)
  \/ \E s \in Sessions : ModelUpdateTimestamp_Call(s)
  \/ \E s \in Sessions : ModelUpdateResults(s)
  \/ \E s \in Sessions : ModelAdoptNextOrphan_Call(s, {FIRST_AUTO_ID},
                                                   OrphanIntervals)
  \/ \E s \in Sessions : FindCandidateModel(s)
  \/ \E s \in Sessions : AdoptModel_Update(s)
  \/ \E s \in Sessions : AdoptModel_Check(s)
  \/ Tick

SpecAdopt == Init /\ [][NextAdopt]_vars

SpecAdoptFair ==
  SpecAdopt /\ \A s \in Sessions : WF_vars(AdoptStep(s))

\* The threads of one process after ClientJobsDAO.connect(): they share the
\* handle, and with it the connection id that connect() saved in it.
InitThreads ==
  /\ jobs = EmptyTable
  /\ models = EmptyTable
  /\ nextJobId = FIRST_AUTO_ID
  /\ nextModelId = FIRST_AUTO_ID
  /\ now = 1
  /\ connOf = [s \in Sessions |-> 1]
  /\ pc = [s \in Sessions |-> "idle"]
  /\ call = [s \in Sessions |-> NoCall]
  /\ loc = [s \in Sessions |-> NoLoc]
  /\ ret = [s \in Sessions |-> NoRet]
  /\ uuidCount = 0
  /\ faults = 0
  /\ calls = 0
  /\ instance = 1
  /\ constructed = 1

\* The claim race among the threads of one process.
SpecThreads == InitThreads /\ [][NextClaimRace]_vars

\* A process that has not called ClientJobsDAO.get() yet: no handle exists.
InitProcess ==
  /\ jobs = EmptyTable
  /\ models = EmptyTable
  /\ nextJobId = FIRST_AUTO_ID
  /\ nextModelId = FIRST_AUTO_ID
  /\ now = 1
  /\ connOf = [s \in Sessions |-> 1]
  /\ pc = [s \in Sessions |-> "idle"]
  /\ call = [s \in Sessions |-> NoCall]
  /\ loc = [s \in Sessions |-> NoLoc]
  /\ ret = [s \in Sessions |-> NoRet]
  /\ uuidCount = 0
  /\ faults = 0
  /\ calls = 0
  /\ instance = None
  /\ constructed = 0

\* The threads of the process call ClientJobsDAO.get().
NextGet ==
  \/ \E s \in Sessions : Get_Call(s)
  \/ \E s \in Sessions : Get_Check(s)
  \/ \E s \in Sessions : Get_Init(s)
  \/ \E s \in Sessions : Get_Connect(s)
  \/ \E s \in Sessions : Get_Assign(s)
  \/ \E s \in Sessions : Get_Return(s)

SpecGet == InitProcess /\ [][NextGet]_vars

\* ======================================================== claims C1, C2
\* C1: when two sessions race jobStartNext for one notStarted job, exactly
\* one call returns its jobId and the other returns None.  Under SpecStart a
\* job leaves notStarted at most once, so two finished jobStartNext calls of
\* different sessions never report the same jobId.
C1_ClaimRaceOneWinner ==
  \A s \in Sessions : \A t \in Sessions \ {s} :
    (Finished(s, "jobStartNext") /\ Finished(t, "jobStartNext")
       /\ ret[s].value # None)
    => ret[t].value # ret[s].value

\* C2: the UPDATE of jobStartNext changes a job only while its status is
\* notStarted, and then makes it running and owned by the updating session;
\* on a job in any other status it changes nothing (status, engCjmConnId and
\* startTime are never overwritten), and it never touches another job.
C2_StartUpdateOnlyNotStarted ==
  [][\A s \in Sessions :
       StartJobWithRetries(s) =>
         LET j == loc[s].jobID IN
         /\ \A k \in DOMAIN jobs \ {j} : jobs'[k] = jobs[k]
         /\ IF jobs[j].status = STATUS_NOTSTARTED
            THEN /\ jobs'[j].status = STATUS_RUNNING
                 /\ jobs'[j].engCjmConnId = connOf[s]
                 /\ jobs'[j].startTime = now
            ELSE jobs'[j] = jobs[j]]_vars

\* A losing jobStartNext has run its UPDATE: the job is running and owned by
\* another session.
C2_Witness ==
  \E s \in Sessions :
    /\ Finished(s, "jobStartNext")
    /\ ret[s].value \in DOMAIN jobs
    /\ jobs[ret[s].value].status = STATUS_RUNNING
    /\ jobs[ret[s].value].engCjmConnId # connOf[s]

\* ==================================================== claims C3, C4, C5
\* The sessions whose modelInsertAndStart call has the arguments of s's call.
SameClaim(s) ==
  {t \in Sessions :
     /\ call[t].op = "modelInsertAndStart"
     /\ call[t].jobID = call[s].jobID
     /\ call[t].paramsHash = call[s].paramsHash
     /\ call[t].particleHash = call[s].particleHash}

ClaimDone(s) == Finished(s, "modelInsertAndStart") /\ ret[s].status = "ok"

\* C3: sessions with distinct connIds call modelInsertAndStart for the same
\* jobId, paramsHash and particleHash: every call returns the modelId of the
\* one row with these hashes, at most one call returns ours=True (exactly one
\* once all of them have returned), and the row's engWorkerConnId is the
\* connId of the call that returned True.
C3_ClaimRaceOneOwner ==
  \A s \in Sessions :
    (call[s].op = "modelInsertAndStart"
       /\ ExactMatch(call[s].jobID, call[s].paramsHash, call[s].particleHash) # {})
    => LET row == ExactMatch(call[s].jobID, call[s].paramsHash,
                             call[s].particleHash)
           done == {t \in SameClaim(s) : Finished(t, "modelInsertAndStart")}
           winners == {t \in done : ret[t].status = "ok" /\ ret[t].value[2]}
       IN
       /\ \A t \in done : ret[t].status = "ok" /\ ret[t].value[1] \in row
       /\ Cardinality(winners) <= 1
       /\ done = SameClaim(s) => Cardinality(winners) = 1
       /\ \A t \in winners :
            models[ret[t].value[1]].engWorkerConnId = connOf[t]

\* Two sessions raced for the same parameterization and both have returned.
C3_Witness ==
  \E s \in {u \in Sessions : ClaimDone(u)} :
  \E t \in {u \in SameClaim(s) \ {s} : ClaimDone(u)} :
    /\ faults = 0
    /\ ret[s].value[2] /\ ~ret[t].value[2]
    /\ ret[s].value[1] = ret[t].value[1]

\* C4: no two model rows of the same job share an engParamsHash, and no two
\* model rows of the same job share an engParticleHash.
C4_ModelHashesUnique ==
  \A m1 \in DOMAIN models : \A m2 \in DOMAIN models \ {m1} :
    models[m1].jobId = models[m2].jobId
    => /\ models[m1].engParamsHash # models[m2].engParamsHash
       /\ models[m1].engParticleHash # models[m2].engParticleHash

\* An insert was refused for its particle hash alone: the call returned the
\* row that holds the particle hash under another params hash.
C4_Witness ==
  \E s \in Sessions :
    /\ ClaimDone(s)
    /\ ~ret[s].value[2]
    /\ models[ret[s].value[1]].jobId = call[s].jobID
    /\ models[ret[s].value[1]].engParticleHash = call[s].particleHash
    /\ models[ret[s].value[1]].engParamsHash # call[s].paramsHash
    /\ Cardinality(DOMAIN models) >= 2

\* C5: no two job rows have the same (client, jobHash) pair.
C5_JobHashUnique ==
  \A j1 \in DOMAIN jobs : \A j2 \in DOMAIN jobs \ {j1} :
    ~(jobs[j1].client = jobs[j2].client /\ jobs[j1].jobHash = jobs[j2].jobHash)

\* A jobInsertUnique lost the race between its lookup and its INSERT IGNORE:
\* without any fault, its INSERT was ignored because the row is there.
C5_Witness ==
  \E s \in Sessions :
    /\ call[s].op = "jobInsertUnique"
    /\ pc[s] = "ji_lookup"
    /\ faults = 0
    /\ JobRowsMatching(call[s].client, call[s].jobHash) # {}

\* ========================================================= claims C6, C7
\* C6: modelUpdateResults by a session whose connId differs from the model's
\* stored engWorkerConnId leaves every model row as it is and raises
\* InvalidConnectionException.
C6_NonOwnerUpdateRejected ==
  [][\A s \in Sessions :
       (ModelUpdateResults(s)
          /\ models[call[s].modelID].engWorkerConnId # connOf[s])
       => /\ models' = models
          /\ pc'[s] \in {"idle", "stmt"}
          /\ pc'[s] = "idle"
             => ret'[s] = Raise("InvalidConnectionException")]_vars

\* A non-owner's modelUpdateResults was rejected.
C6_Witness ==
  \E s \in Sessions :
    /\ Finished(s, "modelUpdateResults")
    /\ ret[s] = Raise("InvalidConnectionException")
    /\ models[call[s].modelID].engWorkerConnId # connOf[s]
    /\ models[call[s].modelID].results = NULL
    /\ models[call[s].modelID].updateCounter = 0

\* One execution of an ownership-gated statement on a job row.
GatedJobStep(s) ==
  /\ \/ JobSetStatus(s)
     \/ JobSetCompleted(s)
     \/ JobSetFields(s)
     \/ JobIncrementIntField(s)
  /\ call[s].useConnectionID

\* One execution of an ownership-gated statement on a model row.
GatedModelStep(s) ==
  \/ ModelUpdateResults(s)
  \/ ModelSetCompleted(s) /\ call[s].useConnectionID

IgnoresUnchanged(s) ==
  call[s].op = "jobSetFields" /\ call[s].ignoreUnchanged

\* C7 as stated: a gated write by a caller with connId c on a row with stored
\* owner o succeeds, having written the row, if and only if o = c.
C7_GatedWriteIffOwner ==
  [][\A s \in Sessions :
       /\ (GatedJobStep(s) /\ pc'[s] = "idle")
          => LET j == call[s].jobID IN
             /\ ret'[s].status = "ok" <=> jobs[j].engCjmConnId = connOf[s]
             /\ jobs[j].engCjmConnId = connOf[s] => jobs'[j] # jobs[j]
       /\ (GatedModelStep(s) /\ pc'[s] = "idle")
          => LET m == call[s].modelID IN
             /\ ret'[s].status = "ok" <=> models[m].engWorkerConnId = connOf[s]
             /\ models[m].engWorkerConnId = connOf[s]
                => models'[m] # models[m]]_vars

\* C7, amended: a gated write changes its row only if o = c and never changes
\* another row; it succeeds if and only if o = c and the statement changes a
\* stored value of the row (always so on a model row, whose updateCounter is
\* incremented) or, for jobSetFields, ignoreUnchanged is set; otherwise it
\* affects no row and raises.
C7_GatedWrite ==
  [][\A s \in Sessions :
       /\ GatedJobStep(s)
          => LET j == call[s].jobID
                 owner == jobs[j].engCjmConnId = connOf[s]
             IN
             /\ models' = models
             /\ \A k \in DOMAIN jobs \ {j} : jobs'[k] = jobs[k]
             /\ ~owner => jobs'[j] = jobs[j]
             /\ pc'[s] = "idle"
                => /\ ret'[s].status = "ok"
                      <=> \/ owner /\ jobs'[j] # jobs[j]
                          \/ IgnoresUnchanged(s)
                   /\ ret'[s].status # "ok" => ret'[s] = Raise("RuntimeError")
       /\ GatedModelStep(s)
          => LET m == call[s].modelID
                 owner == models[m].engWorkerConnId = connOf[s]
             IN
             /\ jobs' = jobs
             /\ \A k \in DOMAIN models \ {m} : models'[k] = models[k]
             /\ owner <=> models'[m] # models[m]
             /\ pc'[s] = "idle"
                => /\ ret'[s].status = "ok" <=> owner
                   /\ ~owner => ret'[s] = Raise("InvalidConnectionException")
    ]_vars

\* The owner of a job row repeated a gated write that changes nothing, and
\* the write raised.
C7_Witness ==
  \E s \in Sessions :
    /\ Finished(s, "jobSetStatus")
    /\ call[s].useConnectionID
    /\ faults = 0
    /\ ret[s] = Raise("RuntimeError")
    /\ jobs[call[s].jobID].engCjmConnId = connOf[s]

\* ==================================================== claims C8, C9, C10
\* Model m is running and was last updated more than the caller's
\* maxUpdateInterval ago.
StaleFor(s, m) ==
  /\ models[m].status = STATUS_RUNNING
  /\ now - models[m].engLastUpdateTime > call[s].maxUpdateInterval

\* C8: when a running model of the job has not been updated for more than
\* maxUpdateInterval, modelAdoptNextOrphan selects a stale model, its UPDATE
\* sets the model's engWorkerConnId to the adopter and the call returns the
\* modelId; from then on modelUpdateResults, and modelSetCompleted with
\* useConnectionID=True, by a session that is not the stored owner raise
\* InvalidConnectionException and change nothing.
C8_OrphanHandOff ==
  [][\A s \in Sessions :
       /\ (FindCandidateModel(s)
             /\ \E m \in DOMAIN models :
                  models[m].jobId = call[s].jobId /\ StaleFor(s, m))
          => /\ pc'[s] = "ao_update"
             /\ models[loc'[s].modelID].jobId = call[s].jobId
             /\ StaleFor(s, loc'[s].modelID)
       /\ (AdoptModel_Update(s) /\ StaleFor(s, loc[s].modelID))
          => /\ models'[loc[s].modelID].engWorkerConnId = connOf[s]
             /\ pc'[s] \in {"idle", "ao_update"}
             /\ pc'[s] = "idle" => ret'[s] = Ok(loc[s].modelID)
       /\ (GatedModelStep(s)
             /\ models[call[s].modelID].engWorkerConnId # connOf[s])
          => /\ models' = models
             /\ pc'[s] = "idle"
                => ret'[s] = Raise("InvalidConnectionException")]_vars

\* Worker b adopted the model that worker a had created, and a's later
\* modelUpdateResults on it was rejected.
C8_Witness ==
  \E a \in Sessions : \E b \in Sessions \ {a} :
    /\ Finished(b, "modelAdoptNextOrphan")
    /\ ret[b].status = "ok" /\ ret[b].value \in DOMAIN models
    /\ models[ret[b].value].engWorkerConnId = connOf[b]
    /\ Finished(a, "modelUpdateResults")
    /\ call[a].modelID = ret[b].value
    /\ ret[a] = Raise("InvalidConnectionException")
    /\ models[ret[b].value].updateCounter = 0

\* The finished modelAdoptNextOrphan calls for job j that returned model m.
AdoptersOf(m) ==
  {s \in Sessions : Finished(s, "modelAdoptNextOrphan") /\ ret[s] = Ok(m)}

\* C9: of the modelAdoptNextOrphan calls racing for a stale model, at most
\* one returns its modelId, the model's engWorkerConnId is the connId of that
\* call, and when it is the job's only model the other calls return None.
C9_OneAdopter ==
  \A m \in DOMAIN models :
    /\ Cardinality(AdoptersOf(m)) <= 1
    /\ \A s \in AdoptersOf(m) :
         /\ models[m].engWorkerConnId = connOf[s]
         /\ \A t \in Sessions \ {s} :
              (/\ Finished(t, "modelAdoptNextOrphan")
               /\ call[t].jobId = models[m].jobId
               /\ \A k \in DOMAIN models : models[k].jobId = models[m].jobId
                                           => k = m)
              => ret[t] = Ok(None)

\* Two adopters had selected the same stale model: one has returned it and
\* the UPDATE of the other then matched nothing.
C9_Witness ==
  \E s \in Sessions : \E t \in Sessions \ {s} :
    /\ Finished(s, "modelAdoptNextOrphan")
    /\ ret[s].status = "ok" /\ ret[s].value \in DOMAIN models
    /\ models[ret[s].value].engWorkerConnId = connOf[s]
    /\ pc[t] = "ao_check"
    /\ loc[t].modelID = ret[s].value
    /\ faults = 0

\* C10: the engWorkerConnId of an existing model changes only in the adopting
\* UPDATE of a session, to that session's connId, and only when at that
\* moment the model has status running and its engLastUpdateTime is more than
\* maxUpdateInterval in the past; an adopting UPDATE on a model that is
\* completed or was updated within maxUpdateInterval changes nothing.
C10_AdoptOnlyStaleRunning ==
  [][/\ \A m \in DOMAIN models :
          models'[m].engWorkerConnId # models[m].engWorkerConnId
          => \E s \in Sessions :
               /\ pc[s] = "ao_update" /\ loc[s].modelID = m
               /\ models[m].status = STATUS_RUNNING
               /\ now - models[m].engLastUpdateTime > call[s].maxUpdateInterval
               /\ models'[m].engWorkerConnId = connOf[s]
     /\ \A s \in Sessions :
          (AdoptModel_Update(s)
             /\ ~(/\ models[loc[s].modelID].status = STATUS_RUNNING
                  /\ now - models[loc[s].modelID].engLastUpdateTime
                       > call[s].maxUpdateInterval))
          => models' = models /\ pc'[s] \in {"ao_check", "ao_update"}]_vars

\* A session selected a stale model, the owner's heartbeat arrived before the
\* adopting UPDATE, and the UPDATE matched nothing.
C10_Witness ==
  \E s \in Sessions :
    /\ pc[s] = "ao_check"
    /\ faults = 0
    /\ models[loc[s].modelID].status = STATUS_RUNNING
    /\ models[loc[s].modelID].engWorkerConnId # connOf[s]
    /\ models[loc[s].modelID].updateCounter > 0
    /\ \A t \in Sessions \ {s} : call[t].op = "modelUpdateResults"

\* ===================================================== claims C11, C12
\* The workers whose election call has returned.
Elected(v) ==
  {s \in Sessions : Finished(s, "jobSetFieldIfEqual") /\ ret[s] = Ok(v)}

\* C11: when every worker has called jobSetFieldIfEqual(job, engWorkerState,
\* "A", None) on a job whose engWorkerState was NULL, exactly one call has
\* returned True, the others False, and the stored value is "A".
C11_ElectExactlyOne ==
  \A j \in DOMAIN jobs :
    (\A s \in Sessions : Finished(s, "jobSetFieldIfEqual") /\ call[s].jobID = j)
    => /\ Cardinality(Elected(TRUE)) = 1
       /\ Elected(FALSE) = Sessions \ Elected(TRUE)
       /\ jobs[j].engWorkerState = "A"

JobInsertUniqueStep(s) ==
  \/ JobInsertUnique_Lookup(s)
  \/ JobInsertUnique_Update(s)
  \/ JobInsertUnique_Resume(s)
  \/ call[s].op = "jobInsertUnique"
     /\ (InsertOrGetUniqueJob_Insert(s) \/ InsertOrGetUniqueJob_Lookup(s))

\* The parameters jobInsertUnique stores, as one record.
StoredParams(row) ==
  [cmdLine |-> row.cmdLine, params |-> row.params,
   clientInfo |-> row.clientInfo, clientKey |-> row.clientKey,
   minimumWorkers |-> row.minimumWorkers,
   maximumWorkers |-> row.maximumWorkers,
   priority |-> row.priority, jobType |-> row.engJobType]

\* C13: while a job with the (client, jobHash) of a jobInsertUnique call
\* exists and is not completed, no step of the call changes the jobs table
\* (no second row, no field of the existing row), and the call returns the
\* jobId of that job.
C13_InsertUniqueIdempotent ==
  [][\A s \in Sessions :
       \A j \in DOMAIN jobs :
         (/\ JobInsertUniqueStep(s)
          /\ jobs[j].client = call[s].client
          /\ jobs[j].jobHash = call[s].jobHash
          /\ jobs[j].status # STATUS_COMPLETED)
         => /\ jobs' = jobs
            /\ pc'[s] = "idle" => ret'[s] = Ok(j)]_vars

\* Two jobInsertUnique calls for the same (client, jobHash) returned the
\* same jobId; the job was never completed and its row is the only one.
C13_Witness ==
  \E s \in Sessions : \E t \in Sessions \ {s} :
    /\ Finished(s, "jobInsertUnique") /\ Finished(t, "jobInsertUnique")
    /\ calls = 2
    /\ call[s].jobHash = call[t].jobHash
    /\ call[s].ps # call[t].ps
    /\ ret[s] = ret[t] /\ ret[s].status = "ok"
    /\ DOMAIN jobs = {ret[s].value}
    /\ StoredParams(jobs[ret[s].value]) \in {call[s].ps, call[t].ps}

\* C14: a jobInsertUnique call that finds its job completed goes on to the
\* job-reuse UPDATE; on a completed job that UPDATE stores the call's
\* cmdLine, params, workers, priority, job type, clientInfo and clientKey,
\* and the resume makes the job notStarted, keeps those values and returns
\* its jobId; when no other session is active, the call returns with the job
\* notStarted and carrying exactly its arguments.
C14_ResumeAfterCompletion ==
  [][\A s \in Sessions :
       /\ (JobInsertUnique_Lookup(s)
             /\ \E j \in JobRowsMatching(call[s].client, call[s].jobHash) :
                  jobs[j].status = STATUS_COMPLETED)
          => /\ jobs' = jobs
             /\ pc'[s] = "ju_update"
             /\ loc'[s].jobID \in JobRowsMatching(call[s].client,
                                                 call[s].jobHash)
       /\ (JobInsertUnique_Update(s)
             /\ jobs[loc[s].jobID].status = STATUS_COMPLETED)
          => /\ StoredParams(jobs'[loc[s].jobID]) = call[s].ps
             /\ pc'[s] \in {"ju_resume", "ju_lookup"}
       /\ (JobInsertUnique_Resume(s)
             /\ jobs[loc[s].jobID].status = STATUS_COMPLETED)
          => /\ jobs'[loc[s].jobID].status = STATUS_NOTSTARTED
             /\ StoredParams(jobs'[loc[s].jobID])
                  = StoredParams(jobs[loc[s].jobID])
             /\ pc'[s] = "idle" => ret'[s] = Ok(loc[s].jobID)
       /\ (JobInsertUnique_Resume(s) /\ pc'[s] = "idle"
             /\ \A t \in Sessions \ {s} : call[t].op = "none")
          => /\ ret'[s] = Ok(loc[s].jobID)
             /\ jobs'[loc[s].jobID].status = STATUS_NOTSTARTED
             /\ StoredParams(jobs'[loc[s].jobID]) = call[s].ps]_vars

\* One session inserted a job, completed it and called jobInsertUnique again
\* with other parameters: the job is notStarted and carries them.
C14_Witness ==
  \E s \in Sessions :
    /\ Finished(s, "jobInsertUnique")
    /\ \A t \in Sessions \ {s} : call[t].op = "none"
    /\ calls = 3
    /\ call[s].ps = ParamSet2
    /\ ret[s].status = "ok"
    /\ DOMAIN jobs = {ret[s].value}
    /\ jobs[ret[s].value].status = STATUS_NOTSTARTED
    /\ jobs[ret[s].value].cmdLine = "run2"
    /\ jobs[ret[s].value].endTime = TIME_DEFAULT

\* C15: jobInsertUnique changes the stored parameters of an existing job only
\* in its job-reuse UPDATE, only while the job is completed, and then to the
\* arguments of that one caller as a whole; finished calls for the same
\* (client, jobHash) return the same jobId, and a resume of a completed job
\* leaves it notStarted.
C15_ReuseRace ==
  [][/\ \A j \in DOMAIN jobs :
          StoredParams(jobs'[j]) # StoredParams(jobs[j])
          => \E s \in Sessions :
               /\ pc[s] = "ju_update" /\ loc[s].jobID = j
               /\ jobs[j].status = STATUS_COMPLETED
               /\ jobs'[j].status = STATUS_COMPLETED
               /\ StoredParams(jobs'[j]) = call[s].ps
     /\ \A s \in Sessions :
          (JobInsertUnique_Resume(s)
             /\ jobs[loc[s].jobID].status = STATUS_COMPLETED)
          => jobs'[loc[s].jobID].status = STATUS_NOTSTARTED
     /\ \A s \in Sessions : \A t \in Sessions \ {s} :
          (/\ JobInsertUniqueStep(s) /\ pc'[s] = "idle"
           /\ Finished(t, "jobInsertUnique")
           /\ call[t].client = call[s].client
           /\ call[t].jobHash = call[s].jobHash)
          => ret'[s] = ret[t]]_vars

\* Two sessions found the job completed and both have run the job-reuse
\* UPDATE with different parameters; the job carries those of the later one.
C15_Witness ==
  \E s \in Sessions : \E t \in Sessions \ {s} :
    /\ pc[s] = "ju_resume" /\ pc[t] = "ju_resume"
    /\ faults = 0
    /\ loc[s].jobID = loc[t].jobID
    /\ call[s].ps # call[t].ps
    /\ jobs[loc[s].jobID].status = STATUS_COMPLETED
    /\ StoredParams(jobs[loc[s].jobID]) = call[t].ps

\* ============================================================ claim C16
\* Position of a status on the chain notStarted, starting, running,
\* completed; testMode is not on it.
DagRank(status) ==
  CASE status = STATUS_NOTSTARTED -> 0
    [] status = STATUS_STARTING -> 1
    [] status = STATUS_RUNNING -> 2
    [] status = STATUS_COMPLETED -> 3
    [] OTHER -> 0 - 1

\* A move forward along the chain (a skipped stage still counts as following
\* it).
DagStep(a, b) == DagRank(a) >= 0 /\ DagRank(b) > DagRank(a)

\* One execution of the UPDATE of _resumeJobNoRetries, from jobResume or from
\* jobInsertUnique.
ResumeStep(s) == JobResume_Resume(s) \/ JobInsertUnique_Resume(s)

\* C16 as stated: every change of a job's status moves forward along
\* notStarted, starting, running, completed, except completed -> notStarted
\* made by the resume UPDATE.
C16_StatusFollowsDag ==
  [][\A j \in DOMAIN jobs :
       jobs'[j].status # jobs[j].status =>
         \/ DagStep(jobs[j].status, jobs'[j].status)
         \/ /\ jobs[j].status = STATUS_COMPLETED
            /\ jobs'[j].status = STATUS_NOTSTARTED
            /\ \E s \in Sessions : ResumeStep(s)]_vars

\* C16: what the code guarantees about a change of a job's status.  The
\* scheduler's start takes notStarted to running; jobSetCompleted takes any
\* status to completed; the resume UPDATE takes completed to notStarted, or
\* to testMode when alreadyRunning; jobSetStatus and jobSetFields store the
\* status the caller passed, whatever the stored one was.  Nothing else
\* changes the status of a stored job.
C16_StatusChanges ==
  [][\A j \in DOMAIN jobs :
       jobs'[j].status # jobs[j].status =>
         \/ /\ \E s \in Sessions : StartJobWithRetries(s) /\ loc[s].jobID = j
            /\ jobs[j].status = STATUS_NOTSTARTED
            /\ jobs'[j].status = STATUS_RUNNING
         \/ /\ \E s \in Sessions : JobSetCompleted(s) /\ call[s].jobID = j
            /\ jobs'[j].status = STATUS_COMPLETED
         \/ /\ \E s \in Sessions :
                 /\ ResumeStep(s)
                 /\ jobs'[j].status = IF call[s].op = "jobResume"
                                         /\ call[s].alreadyRunning
                                      THEN STATUS_TESTMODE
                                      ELSE STATUS_NOTSTARTED
            /\ jobs[j].status = STATUS_COMPLETED
         \/ \E s \in Sessions :
              /\ JobSetStatus(s) /\ call[s].jobID = j
              /\ jobs'[j].status = call[s].status
         \/ \E s \in Sessions :
              /\ JobSetFields(s) /\ call[s].jobID = j
              /\ "status" \in DOMAIN call[s].fields
              /\ jobs'[j].status = call[s].fields.status]_vars

\* A job the scheduler started is back at notStarted through jobSetStatus.
C16_Witness ==
  \E s \in Sessions :
    /\ Finished(s, "jobSetStatus")
    /\ ret[s] = Ok(None)
    /\ call[s].status = STATUS_NOTSTARTED
    /\ jobs[call[s].jobID].status = STATUS_NOTSTARTED
    /\ jobs[call[s].jobID].engCjmConnId # NULLINT
    /\ jobs[call[s].jobID].startTime # TIME_DEFAULT

\* ============================================================ claim C17
CompletionReasons == {CMPL_REASON_SUCCESS, CMPL_REASON_KILLED,
                      CMPL_REASON_ERROR, CMPL_REASON_EOF}

\* completionReason and endTime are set exactly when the row is completed.
CompletionFieldsAgree(row) ==
  IF row.status = STATUS_COMPLETED
  THEN row.endTime # TIME_DEFAULT /\ row.completionReason \in CompletionReasons
  ELSE row.endTime = TIME_DEFAULT /\ row.completionReason = NULL

\* C17 as stated: in every reachable state every job has completionReason
\* and endTime set if and only if its status is completed.
C17_CompletionFieldsIffCompleted ==
  \A j \in DOMAIN jobs : CompletionFieldsAgree(jobs[j])

\* A status writer (jobSetStatus, or jobSetFields on status) acts on job j.
StatusWriterStep(j) ==
  \E s \in Sessions :
    /\ JobSetStatus(s) \/ JobSetFields(s)
    /\ call[s].jobID = j

\* C17: what the code guarantees.  A new job has completionReason and
\* endTime unset; jobSetCompleted writes status completed, completionReason
\* and endTime in one UPDATE and the resume UPDATE resets the three in one
\* UPDATE, so a row either of them changed has the fields set exactly when
\* it is completed; and every step other than jobSetStatus and jobSetFields
\* keeps that agreement on a row that has it.
C17_CompletionFields ==
  [][/\ \A j \in DOMAIN jobs' \ DOMAIN jobs : CompletionFieldsAgree(jobs'[j])
     /\ \A j \in DOMAIN jobs :
          /\ jobs'[j] # jobs[j]
             /\ (\E s \in Sessions :
                   \/ JobSetCompleted(s) /\ call[s].jobID = j
                   \/ ResumeStep(s))
             => CompletionFieldsAgree(jobs'[j])
          /\ CompletionFieldsAgree(jobs[j]) /\ ~StatusWriterStep(j)
             => CompletionFieldsAgree(jobs'[j])]_vars

\* A job completed by jobSetCompleted has since been resumed by jobResume.
C17_Witness ==
  \E s \in Sessions, t \in Sessions :
    /\ Finished(s, "jobResume") /\ ret[s] = Ok(None)
    /\ Finished(t, "jobSetCompleted") /\ ret[t] = Ok(None)
    /\ call[s].jobID = call[t].jobID
    /\ jobs[call[s].jobID].status # STATUS_COMPLETED
    /\ jobs[call[s].jobID].endTime = TIME_DEFAULT
    /\ jobs[call[s].jobID].completionReason = NULL

\* ============================================================ claim C18
\* An ownership-gated statement of session s changes the row of job j.
GatedJobWrite(s, j) ==
  /\ GatedJobStep(s)
  /\ call[s].jobID = j
  /\ jobs'[j] # jobs[j]

\* C18 as stated: from the moment a start sets engCjmConnId until the job is
\* completed, engCjmConnId keeps its value and only the session it names
\* changes the job through an ownership-gated statement.
C18_OwnerStableUntilCompleted ==
  [][\A j \in DOMAIN jobs :
       jobs[j].engCjmConnId # NULLINT /\ jobs[j].status # STATUS_COMPLETED =>
         /\ jobs'[j].engCjmConnId = jobs[j].engCjmConnId
         /\ \A s \in Sessions :
              GatedJobWrite(s, j) => connOf[s] = jobs[j].engCjmConnId]_vars

\* C18: what the code guarantees.  engCjmConnId of a stored job changes only
\* when the start UPDATE takes the job from notStarted (to the starter's
\* connection id), when jobReactivateRunningJobs finds the job running (to
\* the caller's connection id, whoever owned the job), when the resume
\* UPDATE finds it completed, or when jobInsert with alreadyRunning marks the
\* job as the caller's; and an ownership-gated statement changes the
\* job only for the session whose connection id is the stored engCjmConnId
\* at that moment.
C18_OwnerChanges ==
  [][\A j \in DOMAIN jobs :
       /\ jobs'[j].engCjmConnId # jobs[j].engCjmConnId =>
            \/ \E s \in Sessions :
                 /\ StartJobWithRetries(s) /\ loc[s].jobID = j
                 /\ jobs[j].status = STATUS_NOTSTARTED
                 /\ jobs'[j].engCjmConnId = connOf[s]
            \/ \E s \in Sessions :
                 /\ JobReactivateRunningJobs(s)
                 /\ jobs[j].status = STATUS_RUNNING
                 /\ jobs'[j].engCjmConnId = connOf[s]
            \/ \E s \in Sessions :
                 /\ ResumeStep(s)
                 /\ jobs[j].status = STATUS_COMPLETED
            \/ \E s \in Sessions :
                 /\ InsertOrGetUniqueJob_Mark(s) /\ loc[s].jobID = j
                 /\ jobs'[j].engCjmConnId = connOf[s]
       /\ \A s \in Sessions :
            GatedJobWrite(s, j) => connOf[s] = jobs[j].engCjmConnId]_vars

\* Session s started the job, session t reactivated it while it was running
\* and now owns it.
C18_Witness ==
  \E s \in Sessions, t \in Sessions :
    /\ s # t
    /\ Finished(s, "jobStartNext") /\ ret[s].status = "ok"
    /\ ret[s].value \in DOMAIN jobs
    /\ Finished(t, "jobReactivateRunningJobs")
    /\ jobs[ret[s].value].status = STATUS_RUNNING
    /\ jobs[ret[s].value].startTime # TIME_DEFAULT
    /\ jobs[ret[s].value].engCjmConnId = connOf[t]

\* ============================================================ claim C19
\* Session s executes an ownership-gated statement on model m, stored as
\* completed.
GatedStepOnCompleted(s, m) ==
  /\ GatedModelStep(s)
  /\ call[s].modelID = m
  /\ m \in DOMAIN models
  /\ models[m].status = STATUS_COMPLETED

\* C19 as stated: an ownership-gated statement on a completed model, whoever
\* executes it, leaves the row unchanged, and the call raises.
C19_CompletionTerminal ==
  [][\A s \in Sessions, m \in DOMAIN models :
       GatedStepOnCompleted(s, m) =>
         /\ models'[m] = models[m]
         /\ pc'[s] = "idle" => ret'[s].status = "error"]_vars

\* C19: what the code guarantees.  The WHERE clause of an ownership-gated
\* model statement tests model_id and _eng_worker_conn_id only.  On a
\* completed model the statement of the owning session still takes effect:
\* updateCounter grows by one, the status stays completed and the call
\* returns normally; the statement of any other session leaves the row
\* unchanged and the call raises InvalidConnectionException.
C19_CompletedModelWrites ==
  [][\A s \in Sessions, m \in DOMAIN models :
       GatedStepOnCompleted(s, m) =>
         IF models[m].engWorkerConnId = connOf[s]
         THEN /\ models'[m].updateCounter = models[m].updateCounter + 1
              /\ models'[m].status = STATUS_COMPLETED
              /\ models'[m].engWorkerConnId = connOf[s]
              /\ pc'[s] = "idle" => ret'[s] = Ok(None)
         ELSE /\ models'[m] = models[m]
              /\ pc'[s] = "idle" =>
                   ret'[s] = Raise("InvalidConnectionException")]_vars

\* The owner's heartbeat on a model completed earlier has returned normally.
C19_Witness ==
  \E s \in Sessions :
    /\ Finished(s, "modelUpdateResults")
    /\ ret[s] = Ok(None)
    /\ models[call[s].modelID].status = STATUS_COMPLETED
    /\ models[call[s].modelID].engWorkerConnId = connOf[s]
    /\ models[call[s].modelID].endTime < models[call[s].modelID].engLastUpdateTime
    /\ models[call[s].modelID].updateCounter = 2
    /\ faults = 0

\* ============================================================ claim C20
\* Session s executes, on model m, the UPDATE of one of the three writers
\* that increment update_counter, and its WHERE clause accepts the row.
AcceptedModelWrite(s, m) ==
  \/ /\ ModelUpdateResults(s) /\ call[s].modelID = m
     /\ models[m].engWorkerConnId = connOf[s]
  \/ /\ ModelSetCompleted(s) /\ call[s].modelID = m
     /\ call[s].useConnectionID => models[m].engWorkerConnId = connOf[s]
  \/ /\ ModelSetFields(s) /\ call[s].modelID = m

\* Session s executes, on model m, an ownership-gated UPDATE that its WHERE
\* clause rejects.
RejectedModelWrite(s, m) ==
  /\ GatedModelStep(s) /\ call[s].modelID = m
  /\ models[m].engWorkerConnId # connOf[s]

ModelWriters == {"modelUpdateResults", "modelSetFields", "modelSetCompleted"}

SecondResumeReturns(s, t) ==
  /\ s # t
  /\ Finished(t, "jobResume") /\ ret[t] = Ok(None)
  /\ Running(s, "jobResume")
  /\ call[s].jobID = call[t].jobID
  /\ jobs[call[s].jobID].status = STATUS_NOTSTARTED
  /\ pc'[s] = "idle"

\* C21 as stated: the second jobResume on a job the first one resumed
\* returns without an error and leaves the job as it is.
C21_SecondResumeNoError ==
  [][\A s \in Sessions, t \in Sessions :
       SecondResumeReturns(s, t) =>
         /\ ret'[s].status = "ok"
         /\ jobs' = jobs]_vars

\* C21: what the code does.  jobResume first reads the status and raises
\* RuntimeError, changing nothing, unless it is completed; so a second
\* jobResume issued after the first one returned raises.  Only a call that
\* read completed before another call's UPDATE reaches its own UPDATE on a
\* job that is no longer completed: that UPDATE changes nothing and the call
\* returns normally.
C21_SecondResume ==
  [][\A s \in Sessions :
       /\ JobResume_Get(s) =>
            /\ jobs' = jobs
            /\ IF jobs[call[s].jobID].status = STATUS_COMPLETED
               THEN pc'[s] = "jr_resume"
               ELSE pc'[s] = "idle" /\ ret'[s] = Raise("RuntimeError")
       /\ JobResume_Resume(s) =>
            /\ \A j \in DOMAIN jobs : j # call[s].jobID => jobs'[j] = jobs[j]
            /\ IF jobs[call[s].jobID].status = STATUS_COMPLETED
               THEN jobs'[call[s].jobID].status =
                      IF call[s].alreadyRunning THEN STATUS_TESTMODE
                      ELSE STATUS_NOTSTARTED
               ELSE jobs'[call[s].jobID] = jobs[call[s].jobID]
            /\ pc'[s] = "idle" => ret'[s] = Ok(None)]_vars

\* Both jobResume calls on one completed job have returned, one normally and
\* one with RuntimeError, and the job is at notStarted.
C21_Witness ==
  \E s \in Sessions, t \in Sessions :
    /\ s # t
    /\ Finished(t, "jobResume") /\ ret[t] = Ok(None)
    /\ Finished(s, "jobResume") /\ ret[s] = Raise("RuntimeError")
    /\ call[s].jobID = call[t].jobID
    /\ ~call[t].alreadyRunning
    /\ jobs[call[s].jobID].status = STATUS_NOTSTARTED
    /\ jobs[call[s].jobID].engAllocateNewWorkers
    /\ calls = 4 /\ faults = 0

\* ============================================================ claim C22
\* The job the resume UPDATE of session s addresses, and its alreadyRunning.
ResumedJob(s) == IF call[s].op = "jobResume" THEN call[s].jobID ELSE loc[s].jobID
ResumeFlag(s) == call[s].op = "jobResume" /\ call[s].alreadyRunning

\* The fields the resume UPDATE does not assign.
ResumeKeeps == {"client", "clientInfo", "clientKey", "cmdLine", "params",
                "jobHash", "results", "engJobType", "minimumWorkers",
                "maximumWorkers", "priority", "engWorkerState", "engStatus"}

\* C22: the resume UPDATE on a completed job sets status to notStarted
\* (testMode with alreadyRunning), puts completionReason, completionMsg,
\* workerCompletionReason, workerCompletionMsg, endTime, cancel,
\* engAllocateNewWorkers, engUntendedDeadWorkers, numFailedWorkers,
\* lastFailedWorkerErrorMsg and engCleaningStatus back to their defaults,
\* refreshes engLastUpdateTime, clears engCjmConnId and startTime (with
\* alreadyRunning: the caller's connection id and the current time), and
\* leaves every other field, every other job and the set of jobIds as they
\* are; on a job that is not completed it changes nothing.
C22_ResumeEffect ==
  [][\A s \in Sessions :
       ResumeStep(s) =>
         LET j == ResumedJob(s)
             old == jobs[j]
             new == jobs'[j]
         IN
         /\ DOMAIN jobs' = DOMAIN jobs
         /\ \A k \in DOMAIN jobs : k # j => jobs'[k] = jobs[k]
         /\ IF old.status # STATUS_COMPLETED
            THEN new = old
            ELSE /\ new.status = IF ResumeFlag(s) THEN STATUS_TESTMODE
                                 ELSE STATUS_NOTSTARTED
                 /\ new.completionReason = NULL
                 /\ new.completionMsg = NULL
                 /\ new.workerCompletionReason = CMPL_REASON_SUCCESS
                 /\ new.workerCompletionMsg = NULL
                 /\ new.endTime = TIME_DEFAULT
                 /\ new.cancel = FALSE
                 /\ new.engAllocateNewWorkers = TRUE
                 /\ new.engUntendedDeadWorkers = FALSE
                 /\ new.numFailedWorkers = 0
                 /\ new.lastFailedWorkerErrorMsg = NULL
                 /\ new.engCleaningStatus = CLEAN_NOT_DONE
                 /\ new.engLastUpdateTime = now
                 /\ new.engCjmConnId = IF ResumeFlag(s) THEN connOf[s]
                                       ELSE NULLINT
                 /\ new.startTime = IF ResumeFlag(s) THEN now ELSE TIME_DEFAULT
                 /\ \A f \in ResumeKeeps : new[f] = old[f]]_vars

\* A job completed by jobSetCompleted has been resumed with alreadyRunning:
\* it is in testMode, owned by the resuming session, with endTime cleared.
C22_Witness ==
  \E s \in Sessions, t \in Sessions :
    /\ Finished(s, "jobResume") /\ ret[s] = Ok(None)
    /\ call[s].alreadyRunning
    /\ Finished(t, "jobSetCompleted") /\ ret[t] = Ok(None)
    /\ call[t].jobID = call[s].jobID
    /\ jobs[call[s].jobID].status = STATUS_TESTMODE
    /\ jobs[call[s].jobID].engCjmConnId = connOf[s]
    /\ jobs[call[s].jobID].endTime = TIME_DEFAULT
    /\ jobs[call[s].jobID].completionReason = NULL

\* ============================================================ claim C23
\* The models of job jobID that have the params hash or the particle hash.
Colliding(jobID, paramsHash, particleHash) ==
  {m \in DOMAIN models :
     /\ models[m].jobId = jobID
     /\ \/ models[m].engParamsHash = paramsHash
        \/ models[m].engParticleHash = particleHash}

\* The models of job jobID that have both hashes.
SamePair(jobID, paramsHash, particleHash) ==
  {m \in DOMAIN models :
     /\ models[m].jobId = jobID
     /\ models[m].engParamsHash = paramsHash
     /\ models[m].engParticleHash = particleHash}

\* C23: a modelInsertAndStart that finds a model of the same job with the
\* same pair of hashes returns (that modelId, False) at once; its INSERT adds
\* no row when a model of the same job has its params hash or its particle
\* hash, and the call then returns the id of such a model, with False unless
\* the exact pair is stored under the caller's own connection id (a row the
\* call itself inserted before a retry); when no model of the same job
\* collides, whatever other jobs hold, the INSERT adds one row with the next
\* modelId and the call returns (that modelId, True).
C23_DualHashDedup ==
  [][\A s \in Sessions :
       LET c == call[s]
           collide == Colliding(c.jobID, c.paramsHash, c.particleHash)
           exact == SamePair(c.jobID, c.paramsHash, c.particleHash)
       IN
       /\ ModelInsertAndStart_Precheck(s) /\ exact # {} =>
            /\ models' = models
            /\ pc'[s] = "idle"
            /\ \E m \in exact : ret'[s] = Ok(<<m, FALSE>>)
       /\ ModelInsertAndStart_Insert(s) =>
            IF collide # {}
            THEN models' = models /\ pc'[s] = "mi_exact"
            ELSE /\ DOMAIN models' = DOMAIN models \cup {nextModelId}
                 /\ \A m \in DOMAIN models : models'[m] = models[m]
                 /\ models'[nextModelId].jobId = c.jobID
                 /\ models'[nextModelId].engParamsHash = c.paramsHash
                 /\ models'[nextModelId].engParticleHash = c.particleHash
                 /\ pc'[s] = "idle" => ret'[s] = Ok(<<nextModelId, TRUE>>)
       /\ ModelInsertAndStart_Exact(s) \/ ModelInsertAndStart_Either(s) =>
            /\ models' = models
            /\ pc'[s] = "idle" /\ ret'[s].status = "ok" =>
                 /\ ret'[s].value[1] \in collide
                 /\ ret'[s].value[2] =>
                      /\ ret'[s].value[1] \in exact
                      /\ models[ret'[s].value[1]].engWorkerConnId = connOf[s]
       /\ ModelInsertAndStart_Either(s) /\ pc'[s] = "idle"
            /\ ret'[s].status = "ok" => ~ret'[s].value[2]]_vars

\* A call whose particle hash, but not its params hash, is the one of a
\* stored model of its job has returned (that modelId, False), and another
\* job holds a model with the same two hashes as that model.
C23_Witness ==
  \E s \in Sessions, m \in DOMAIN models, n \in DOMAIN models :
    /\ Finished(s, "modelInsertAndStart")
    /\ ret[s] = Ok(<<m, FALSE>>)
    /\ models[m].jobId = call[s].jobID
    /\ models[m].engParticleHash = call[s].particleHash
    /\ models[m].engParamsHash # call[s].paramsHash
    /\ models[n].jobId # models[m].jobId
    /\ models[n].engParamsHash = models[m].engParamsHash
    /\ models[n].engParticleHash = models[m].engParticleHash

\* ============================================================ claim C24
\* Session s executes the UPDATE of a jobCancel call.
JobCancelStep(s) ==
  /\ JobSetFields(s)
  /\ call[s].fields = [cancel |-> TRUE]
  /\ ~call[s].useConnectionID
  /\ ~call[s].ignoreUnchanged

\* C24: jobCancel on an existing job, by any session and whatever the job's
\* engCjmConnId, leaves cancel true, changes no other field of the job and no
\* other job, and returns normally.
C24_CancelSucceeds ==
  [][\A s \in Sessions :
       JobCancelStep(s) =>
         LET j == call[s].jobID IN
         /\ jobs'[j] = [jobs[j] EXCEPT !.cancel = TRUE]
         /\ \A k \in DOMAIN jobs : k # j => jobs'[k] = jobs[k]
         /\ DOMAIN jobs' = DOMAIN jobs
         /\ pc'[s] = "idle" => ret'[s] = Ok(None)]_vars

\* ============================================================ claim C25
\* Session s returns normally from the call it runs.
ReturnsOk(s) == pc[s] # "idle" /\ pc'[s] = "idle" /\ ret'[s].status = "ok"

\* C25 as stated, for the order of the returned jobIds: a jobId returned by
\* jobInsert is greater than every jobId a jobInsert call returned before.
C25_ReturnedIdsIncrease ==
  [][\A s \in Sessions, t \in Sessions :
       /\ call[s].op = "jobInsert" /\ ReturnsOk(s)
       /\ t # s /\ Finished(t, "jobInsert") /\ ret[t].status = "ok"
       => ret'[s].value > ret[t].value]_vars

\* C25: what the code guarantees.  The INSERT of a jobInsert call with valid
\* arguments adds exactly one row, under a jobId greater than every jobId in
\* the table, with status notStarted (testMode with alreadyRunning), unless
\* the row of this call is already there (a retry), and then it adds nothing;
\* the call returns the jobId of its own row, which no other jobInsert call
\* has returned.  The jobIds grow in the order of the INSERTs, which need not
\* be the order in which concurrent calls return.
C25_InsertCreatesRow ==
  [][\A s \in Sessions :
       call[s].op = "jobInsert" =>
         LET c == call[s] IN
         /\ /\ InsertOrGetUniqueJob_Insert(s)
            /\ Len(c.client) <= CLIENT_MAX_LEN /\ c.ps.cmdLine # ""
            => IF \E k \in DOMAIN jobs : /\ jobs[k].client = c.client
                                         /\ jobs[k].jobHash = c.jobHash
               THEN jobs' = jobs
               ELSE /\ DOMAIN jobs' = DOMAIN jobs \cup {nextJobId}
                    /\ \A k \in DOMAIN jobs :
                         k < nextJobId /\ jobs'[k] = jobs[k]
                    /\ jobs'[nextJobId].client = c.client
                    /\ jobs'[nextJobId].jobHash = c.jobHash
                    /\ jobs'[nextJobId].status =
                         IF c.alreadyRunning THEN STATUS_TESTMODE
                         ELSE STATUS_NOTSTARTED
         /\ ReturnsOk(s) =>
              /\ ret'[s].value \in DOMAIN jobs'
              /\ jobs'[ret'[s].value].client = c.client
              /\ jobs'[ret'[s].value].jobHash = c.jobHash
              /\ \A t \in Sessions :
                   t # s /\ Finished(t, "jobInsert") /\ ret[t].status = "ok"
                   => ret[t].value # ret'[s].value]_vars

\* Two jobInsert calls have returned two different jobIds; the one inserted
\* with alreadyRunning is in testMode, the other is notStarted.
C25_Witness ==
  \E s \in Sessions, t \in Sessions :
    /\ Finished(s, "jobInsert") /\ ret[s].status = "ok"
    /\ Finished(t, "jobInsert") /\ ret[t].status = "ok"
    /\ ret[s].value # ret[t].value
    /\ call[s].alreadyRunning /\ ~call[t].alreadyRunning
    /\ jobs[ret[s].value].status = STATUS_TESTMODE
    /\ jobs[ret[t].value].status = STATUS_NOTSTARTED
    /\ Cardinality(DOMAIN jobs) = 2

\* ============================================================ claim C26
\* The job row holds the values of the fields dict F under the keys of F, so
\* jobGetFields(jobID, keys) reads them back in the requested order.
HoldsFields(row, F) == \A f \in DOMAIN F : row[f] = F[f]

\* Fields outside the keys of F are as they were, and so is every other job.
OutsideFieldsKept(j, F) ==
  /\ DOMAIN jobs' = DOMAIN jobs
  /\ \A k \in DOMAIN jobs : k # j => jobs'[k] = jobs[k]
  /\ \A f \in DOMAIN jobs[j] : f \notin DOMAIN F => jobs'[j][f] = jobs[j][f]

\* jobGetFields returns the stored values of the requested fields in the
\* requested order, raises when the jobID is not in the table, and writes
\* nothing.
GetFieldsReads(s) ==
  call[s].op = "jobGetFields" /\ pc[s] # "idle" /\ pc'[s] = "idle" =>
    /\ jobs' = jobs
    /\ IF call[s].jobID \in DOMAIN jobs
       THEN /\ ret'[s].status = "ok"
            /\ Len(ret'[s].value) = Len(call[s].fields)
            /\ \A i \in 1..Len(call[s].fields) :
                 ret'[s].value[i] = jobs[call[s].jobID][call[s].fields[i]]
       ELSE ret'[s].status = "error"

\* C26 as stated: whenever jobSetFields(jobID, F) returns without error the
\* job holds the values of F, which jobGetFields then returns in the
\* requested order; the fields outside F are unchanged; jobGetFields raises
\* on a jobID that is not in the table.
C26_SetThenGet ==
  [][\A s \in Sessions :
       /\ call[s].op = "jobSetFields" /\ ReturnsOk(s)
          => /\ HoldsFields(jobs'[call[s].jobID], call[s].fields)
             /\ OutsideFieldsKept(call[s].jobID, call[s].fields)
       /\ GetFieldsReads(s)]_vars

\* C26: the round trip holds when the UPDATE of jobSetFields matched the
\* row, that is with useConnectionID=False or on a job owned by the calling
\* connection.  With ignoreUnchanged=True the call also returns without
\* error when the ownership gate excluded the row, and then no field of any
\* job is changed.
C26_SetThenGetWhenMatched ==
  [][\A s \in Sessions :
       /\ call[s].op = "jobSetFields" /\ ReturnsOk(s)
          => LET j == call[s].jobID IN
             /\ OutsideFieldsKept(j, call[s].fields)
             /\ IF \/ ~call[s].useConnectionID
                   \/ jobs[j].engCjmConnId = connOf[s]
                THEN HoldsFields(jobs'[j], call[s].fields)
                ELSE call[s].ignoreUnchanged /\ jobs' = jobs
       /\ GetFieldsReads(s)]_vars

\* A jobSetFields call has returned without error and a jobGetFields call on
\* the same job has returned the values it set, in the requested order;
\* another jobGetFields outcome, on a jobID not in the table, is an error.
C26_Witness ==
  \E s \in Sessions, t \in Sessions :
    /\ Finished(s, "jobSetFields") /\ ret[s].status = "ok"
    /\ call[s].fields = [cancel |-> TRUE, status |-> STATUS_RUNNING]
    /\ Finished(t, "jobGetFields") /\ ret[t].status = "ok"
    /\ call[t].jobID = call[s].jobID
    /\ call[t].fields = <<"status", "cancel">>
    /\ ret[t].value = <<STATUS_RUNNING, TRUE>>

\* ============================================================ claim C27
\* The hash h right-padded with NUL bytes to HASH_MAX_LEN bytes.
PadNul(h) == [i \in 1..HASH_MAX_LEN |-> IF i <= Len(h) THEN h[i] ELSE 0]

\* Session s takes a step of the call it runs.
StepOf(s) == pc[s] # "idle" /\ pc'[s] # pc[s]

\* The hashes of the running call are normalised, and normalising them again
\* changes nothing.
NormalisedOnce(s) ==
  /\ call[s].op = "jobInsertUnique" /\ Len(call[s].rawHash) <= HASH_MAX_LEN
     => /\ call[s].jobHash = PadNul(call[s].rawHash)
        /\ NormalizeHash(call[s].jobHash) = call[s].jobHash
  /\ /\ call[s].op = "modelInsertAndStart"
     /\ Len(call[s].rawParamsHash) <= HASH_MAX_LEN
     /\ Len(call[s].rawParticleHash) <= HASH_MAX_LEN
     => /\ call[s].paramsHash = PadNul(call[s].rawParamsHash)
        /\ call[s].particleHash = PadNul(call[s].rawParticleHash)
        /\ NormalizeHash(call[s].paramsHash) = call[s].paramsHash
        /\ NormalizeHash(call[s].particleHash) = call[s].particleHash

\* C27: jobInsertUnique and modelInsertAndStart pad a hash shorter than
\* HASH_MAX_LEN bytes with NUL to HASH_MAX_LEN bytes, and padding twice is
\* padding once; the job or model they return is stored under the padded
\* hash, so a hash and its padded form name the same row; a call with a hash
\* longer than HASH_MAX_LEN bytes fails and writes nothing.
C27_HashNormalised ==
  [][\A s \in Sessions :
       /\ NormalisedOnce(s)
       /\ call[s].op = "jobInsertUnique" /\ StepOf(s) =>
            IF Len(call[s].rawHash) > HASH_MAX_LEN
            THEN /\ dbVars' = dbVars
                 /\ pc'[s] = "idle" /\ ret'[s].status = "error"
            ELSE ReturnsOk(s) =>
                   /\ ret'[s].value \in DOMAIN jobs'
                   /\ jobs'[ret'[s].value].client = call[s].client
                   /\ jobs'[ret'[s].value].jobHash = PadNul(call[s].rawHash)
                   /\ \A k \in DOMAIN jobs' :
                        /\ jobs'[k].client = call[s].client
                        /\ jobs'[k].jobHash = PadNul(call[s].rawHash)
                        => k = ret'[s].value
       /\ call[s].op = "modelInsertAndStart" /\ StepOf(s) =>
            IF \/ Len(call[s].rawParamsHash) > HASH_MAX_LEN
               \/ Len(call[s].rawParticleHash) > HASH_MAX_LEN
            THEN /\ dbVars' = dbVars
                 /\ pc'[s] = "idle" /\ ret'[s].status = "error"
            ELSE ReturnsOk(s) =>
                   LET m == ret'[s].value[1] IN
                   /\ m \in DOMAIN models'
                   /\ models'[m].jobId = call[s].jobID
                   /\ \/ models'[m].engParamsHash =
                           PadNul(call[s].rawParamsHash)
                      \/ models'[m].engParticleHash =
                           PadNul(call[s].rawParticleHash)]_vars

\* Two jobInsertUnique calls, one with a short hash and one with its padded
\* form, have returned the same jobId, and the table holds that one job.
C27_Witness ==
  \E s \in Sessions, t \in Sessions :
    /\ Finished(s, "jobInsertUnique") /\ ret[s].status = "ok"
    /\ Finished(t, "jobInsertUnique") /\ ret[t].status = "ok"
    /\ call[s].rawHash = ShortHash /\ call[t].rawHash = PaddedHash
    /\ ret[s].value = ret[t].value
    /\ DOMAIN jobs = {ret[s].value}
    /\ jobs[ret[s].value].jobHash = PaddedHash

\* ============================================================ claim C28
\* C28: a jobInsert or jobInsertUnique call whose client is longer than
\* CLIENT_MAX_LEN characters or whose cmdLine is empty ends in an error, and
\* no step of it inserts or modifies a row, also when jobInsertUnique names a
\* completed job.
C28_RejectedInsertWritesNothing ==
  [][\A s \in Sessions :
       /\ call[s].op \in {"jobInsert", "jobInsertUnique"}
       /\ Len(call[s].client) > CLIENT_MAX_LEN \/ call[s].ps.cmdLine = ""
       /\ StepOf(s)
       => /\ dbVars' = dbVars
          /\ pc'[s] = "idle" => ret'[s].status = "error"]_vars

\* A jobInsertUnique call with an empty cmdLine that named a completed job
\* was refused, and the job is still completed and has its cmdLine.
C28_Witness ==
  \E s \in Sessions, j \in DOMAIN jobs :
    /\ Finished(s, "jobInsertUnique") /\ ret[s].status = "error"
    /\ call[s].ps.cmdLine = "" /\ Len(call[s].client) <= CLIENT_MAX_LEN
    /\ jobs[j].client = call[s].client /\ jobs[j].jobHash = call[s].jobHash
    /\ jobs[j].status = STATUS_COMPLETED /\ jobs[j].cmdLine # ""
    /\ DOMAIN jobs = {j}

\* ============================================================ claim C29
\* Job j is in testMode after the step and was not before it.
EntersTestMode(j) ==
  /\ jobs'[j].status = STATUS_TESTMODE
  /\ j \in DOMAIN jobs => jobs[j].status # STATUS_TESTMODE

\* The INSERT of a jobInsert call with alreadyRunning creates job j.
PreStartedInsert(s, j) ==
  /\ InsertOrGetUniqueJob_Insert(s)
  /\ call[s].op = "jobInsert" /\ call[s].alreadyRunning
  /\ j \notin DOMAIN jobs

\* C29 as stated: a job enters testMode only by the INSERT of a jobInsert
\* call with alreadyRunning=True.
C29_TestModeOnlyByInsert ==
  [][\A j \in DOMAIN jobs' :
       EntersTestMode(j) => \E s \in Sessions : PreStartedInsert(s, j)]_vars

\* C29: a job enters testMode by a pre-started insertion, by the resumption
\* of a completed job with alreadyRunning=True, or by jobSetStatus given
\* testMode; jobStartNext selects only notStarted jobs and none of its
\* steps changes a job that is in testMode.
C29_TestModeSources ==
  [][/\ \A j \in DOMAIN jobs' :
          EntersTestMode(j) =>
            \E s \in Sessions :
              \/ PreStartedInsert(s, j)
              \/ /\ JobResume_Resume(s)
                 /\ call[s].jobID = j /\ call[s].alreadyRunning
                 /\ jobs[j].status = STATUS_COMPLETED
              \/ /\ JobSetStatus(s)
                 /\ call[s].jobID = j /\ call[s].status = STATUS_TESTMODE
     /\ \A s \in Sessions :
          /\ JobStartNext_Select(s) /\ pc'[s] = "sn_update"
             => jobs[loc'[s].jobID].status = STATUS_NOTSTARTED
          /\ JobStartNext_Select(s) \/ StartJobWithRetries(s)
             => \A j \in DOMAIN jobs :
                  jobs[j].status = STATUS_TESTMODE => jobs'[j] = jobs[j]]_vars

\* A completed job was resumed with alreadyRunning=True and is in testMode.
C29_Witness ==
  \E s \in Sessions :
    /\ Finished(s, "jobResume") /\ ret[s].status = "ok"
    /\ call[s].alreadyRunning
    /\ jobs[call[s].jobID].status = STATUS_TESTMODE
    /\ jobs[call[s].jobID].engCjmConnId = connOf[s]
    /\ \A t \in Sessions : ~(call[t].op = "jobInsert" /\ call[t].alreadyRunning)
    /\ \A t \in Sessions : call[t].op # "jobSetStatus"

\* ============================================================ claim C30
\* C30 as stated: no step removes a jobId from the jobs table.
C30_JobsNeverDeleted == [][DOMAIN jobs \subseteq DOMAIN jobs']_vars

\* C30: connect(recreate=True) drops the database and so every job; every
\* other step keeps the jobIds of the jobs table, modelsClearAll deletes
\* every model and no job, and jobInfo returns the row of a jobId that is in
\* the table and raises for one that is not.
C30_JobsKeptUnlessRecreated ==
  [][/\ (\A s \in Sessions : ~(Connect(s) /\ call[s].recreate))
        => DOMAIN jobs \subseteq DOMAIN jobs'
     /\ \A s \in Sessions :
          /\ ModelsClearAll(s) => models' = EmptyTable /\ jobs' = jobs
          /\ call[s].op = "jobInfo" /\ StepOf(s) =>
               /\ dbVars' = dbVars
               /\ IF call[s].jobID \in DOMAIN jobs
                  THEN /\ ret'[s].status = "ok"
                       /\ ret'[s].value = jobs[call[s].jobID]
                  ELSE ret'[s].status = "error"]_vars

\* After a connect that only deleted old versions, jobInfo has returned the
\* row of the job inserted before.
C30_Witness ==
  \E s \in Sessions, t \in Sessions :
    /\ Finished(s, "connect") /\ ret[s].status = "ok"
    /\ call[s].deleteOldVersions /\ ~call[s].recreate
    /\ Finished(t, "jobInfo") /\ ret[t].status = "ok"
    /\ call[t].jobID \in DOMAIN jobs
    /\ ret[t].value = jobs[call[t].jobID]
    /\ uuidCount = 1

\* ============================================================ claim C31
\* The rows that carry the job and both hashes of the modelInsertAndStart
\* call of session s.
RowsOfCall(s) ==
  {m \in DOMAIN models :
     /\ models[m].jobId = call[s].jobID
     /\ models[m].engParamsHash = call[s].paramsHash
     /\ models[m].engParticleHash = call[s].particleHash}

\* C31: when the closure of modelInsertAndStart is executed again after its
\* INSERT took effect (the row of the call exists and carries the caller's
\* connection id), the INSERT adds no row and the lookup that follows
\* returns (modelId of that row, True); when another session has taken the
\* row over meanwhile, or inserted it, the lookup returns (modelId, False).
\* There is never more than one row for the call.
C31_RetryReturnsInsertedModel ==
  [][\A s \in Sessions :
       call[s].op = "modelInsertAndStart" /\ pc[s] \in {"mi_insert", "mi_exact"}
       /\ RowsOfCall(s) # {}
       => /\ Cardinality(RowsOfCall(s)) = 1
          /\ ModelInsertAndStart_Insert(s) =>
               /\ dbVars' = dbVars
               /\ pc'[s] = "mi_exact"
          /\ ModelInsertAndStart_Exact(s) =>
               \E m \in RowsOfCall(s) :
                 /\ pc'[s] = "idle" /\ ret'[s].status = "ok"
                 /\ ret'[s].value =
                      <<m, models[m].engWorkerConnId = connOf[s]>>]_vars

\* The only call made is a modelInsertAndStart that met a fault after its
\* INSERT; it has returned (modelId, True) and the table holds one model.
C31_Witness ==
  \E s \in Sessions :
    /\ calls = 1 /\ faults = 1
    /\ Finished(s, "modelInsertAndStart") /\ ret[s].status = "ok"
    /\ ret[s].value = <<FIRST_AUTO_ID, TRUE>>
    /\ DOMAIN models = {FIRST_AUTO_ID}
    /\ nextModelId = FIRST_AUTO_ID + 1

\* ============================================================ claim C32
\* The rows that carry the client and the jobHash of the call of session s.
JobRowsOfCall(s) ==
  {j \in DOMAIN jobs' :
     /\ jobs'[j].client = call[s].client
     /\ jobs'[j].jobHash = call[s].jobHash}

\* C32: a jobInsert or jobInsertUnique call with valid arguments ends,
\* whatever faults re-executed its closure (after the INSERT took effect, or
\* with LAST_INSERT_ID() returning 0), by returning the jobId of the one row
\* that carries its client and jobHash; no step leaves two rows with the
\* same client and jobHash.
C32_AdmissionRetry ==
  [][/\ \A j \in DOMAIN jobs', k \in DOMAIN jobs' :
          jobs'[j].client = jobs'[k].client /\ jobs'[j].jobHash = jobs'[k].jobHash
          => j = k
     /\ \A s \in Sessions :
          /\ call[s].op \in {"jobInsert", "jobInsertUnique"}
          /\ Len(call[s].client) <= CLIENT_MAX_LEN /\ call[s].ps.cmdLine # ""
          /\ call[s].op = "jobInsertUnique"
             => Len(call[s].rawHash) <= HASH_MAX_LEN
          /\ pc[s] # "idle" /\ pc'[s] = "idle"
          => /\ ret'[s].status = "ok"
             /\ JobRowsOfCall(s) = {ret'[s].value}]_vars

\* The only call made is a jobInsert whose closure was executed again after
\* a fault; it has returned the jobId of the single row in the table.
C32_Witness ==
  \E s \in Sessions :
    /\ calls = 1 /\ faults = 1
    /\ Finished(s, "jobInsert") /\ ret[s].status = "ok"
    /\ ret[s].value = FIRST_AUTO_ID
    /\ DOMAIN jobs = {FIRST_AUTO_ID}
    /\ nextJobId = FIRST_AUTO_ID + 1

\* ============================================================ claim C33
\* Sum of numFailedWorkers over the jobs in js.
RECURSIVE FailedWorkersSum(_)
FailedWorkersSum(js) ==
  IF js = {} THEN 0
  ELSE LET j == CHOOSE k \in js : TRUE IN
       jobs[j].numFailedWorkers + FailedWorkersSum(js \ {j})

\* C33, for jobIncrementIntField: a call whose statement is re-executed
\* after a fault leaves the state of one execution, so when every call is a
\* jobInsert (one hash drawn each) or an increment by one, the counters add
\* up to no more than the number of increment calls made.
C33_IncrementAppliedOnce ==
  FailedWorkersSum(DOMAIN jobs) <= calls - uuidCount

\* ============================================================ claim C34
\* Session s ends its call with a statement that changed no row.
EndsOnZeroRows(s) == pc[s] # "idle" /\ pc'[s] = "idle" /\ dbVars' = dbVars

\* The mutations that report a statement that changed no row as an error.
RaisingMutation(s) ==
  JobSetStatus(s) \/ JobIncrementIntField(s) \/ ModelUpdateResults(s)

\* The mutations that return normally whatever the row count was: the start
\* UPDATE of jobStartNext and jobUpdateResults.
SilentMutation(s) == StartJobWithRetries(s) \/ JobUpdateResults(s)

RECURSIVE IncrementsDone(_, _)
IncrementsDone(ss, j) ==
  IF ss = {} THEN 0
  ELSE LET s == CHOOSE t \in ss : TRUE IN
       (IF /\ Finished(s, "jobIncrementIntField") /\ ret[s].status = "ok"
           /\ call[s].jobID = j
        THEN call[s].increment ELSE 0)
       + IncrementsDone(ss \ {s}, j)

\* C36: without storage faults, however the calls interleave, the stored
\* numFailedWorkers of a job is its initial 0 plus the increments of the
\* calls completed on it; a call that used the ownership gate on a job its
\* connection does not own completes with an error, and a call that
\* completes with an error was either such a call or an increment by 0, so
\* it has added nothing.
C36_AtomicIncrement ==
  /\ \A j \in DOMAIN jobs :
       jobs[j].numFailedWorkers = IncrementsDone(Sessions, j)
  /\ \A s \in Sessions :
       Finished(s, "jobIncrementIntField") =>
         LET notOwner == /\ call[s].useConnectionID
                         /\ jobs[call[s].jobID].engCjmConnId # connOf[s]
         IN /\ notOwner => ret[s].status = "error"
            /\ ret[s].status = "error" => notOwner \/ call[s].increment = 0

\* Two sessions have incremented the same job by 1 and by 2, one of them
\* through the ownership gate, and the job holds 3.
C36_Witness ==
  \E s \in Sessions, t \in Sessions, j \in DOMAIN jobs :
    /\ Finished(s, "jobIncrementIntField") /\ ret[s].status = "ok"
    /\ Finished(t, "jobIncrementIntField") /\ ret[t].status = "ok"
    /\ call[s].jobID = j /\ call[t].jobID = j
    /\ call[s].increment = 1 /\ call[t].increment = 2
    /\ call[s].useConnectionID /\ ~call[t].useConnectionID
    /\ jobs[j].numFailedWorkers = 3

\* ============================================================ claim C37
\* C37: under fair scheduling of the adopter every modelAdoptNextOrphan call
\* returns, and a step by which it returns None is a candidate search that
\* found no stale running model of the job.
C37_AdoptTerminates ==
  /\ \A s \in Sessions :
       Running(s, "modelAdoptNextOrphan") ~> pc[s] = "idle"
  /\ [][\A s \in Sessions :
         /\ call[s].op = "modelAdoptNextOrphan"
         /\ pc[s] # "idle" /\ pc'[s] = "idle" /\ ret'[s] = Ok(None)
         => /\ pc[s] = "ao_find"
            /\ \A m \in DOMAIN models :
                 ~ /\ models[m].jobId = call[s].jobId
                   /\ models[m].status = STATUS_RUNNING
                   /\ now - models[m].engLastUpdateTime
                        > call[s].maxUpdateInterval]_vars

\* Two adopters have returned from the same job: one with the model it
\* adopted, the other with None, the model being fresh again.
C37_Witness ==
  \E s \in Sessions, t \in Sessions, m \in DOMAIN models :
    /\ Finished(s, "modelAdoptNextOrphan") /\ ret[s] = Ok(None)
    /\ Finished(t, "modelAdoptNextOrphan") /\ ret[t] = Ok(m)
    /\ models[m].jobId = call[s].jobId
    /\ models[m].engWorkerConnId = connOf[t]
    /\ models[m].status = STATUS_RUNNING

\* ============================================================ claim C38
\* C38 as stated: of two threads sharing the handle that have called
\* modelInsertAndStart with the same jobID and hashes, without storage
\* faults, at most one has been answered wasInserted = True.
C38_OneThreadInserts ==
  \A s \in Sessions, t \in Sessions :
    /\ s # t /\ faults = 0
    /\ connOf[s] = connOf[t]
    /\ Finished(s, "modelInsertAndStart") /\ ret[s].status = "ok"
    /\ Finished(t, "modelInsertAndStart") /\ ret[t].status = "ok"
    /\ call[s].jobID = call[t].jobID
    /\ call[s].paramsHash = call[t].paramsHash
    /\ call[s].particleHash = call[t].particleHash
    => ~(ret[s].value[2] /\ ret[t].value[2])

\* ============================================================ claim C39
\* C39 as stated: however the get() calls of the threads of one process
\* interleave, at most one ClientJobsDAO instance is constructed, and all
\* calls that have returned have returned the same instance.
C39_OneHandle ==
  /\ constructed <= 1
  /\ \A s \in Sessions, t \in Sessions :
       /\ Finished(s, "get") /\ ret[s].status = "ok"
       /\ Finished(t, "get") /\ ret[t].status = "ok"
       => ret[s].value = ret[t].value

\* ============================================================ claim C40
\* C40 as stated: the UPDATE of a jobCancel call on a job whose cancel flag
\* is already true leaves the flag true, and the call returns normally.
C40_CancelIdempotent ==
  [][\A s \in Sessions :
       /\ JobCancelStep(s)
       /\ jobs[call[s].jobID].cancel = TRUE
       /\ pc'[s] = "idle"
       => /\ jobs'[call[s].jobID].cancel = TRUE
          /\ ret'[s] = Ok(None)]_vars

====
